---------------------------- MODULE Spec2Model ----------------------------
(***************************************************************************)
(* A model of loader/preloader.c, the preloader that reserves address      *)
(* ranges before the ELF interpreter (or, on Apple hosts, dyld) runs.      *)
(*                                                                         *)
(* Addresses of the reservation engine are page numbers of the i386 build  *)
(* (byte address / 0x1000): every static range and every range that        *)
(* preload_reserve stores is page aligned, and pointers are 32 bits wide,  *)
(* so a page number is below 2^20.  A value that is not page aligned (the  *)
(* number being parsed, the incoming stack pointer) is a pair              *)
(* [pg, off] with byte address pg * 0x1000 + off.                          *)
(***************************************************************************)
EXTENDS Integers, Sequences, FiniteSets, TLC

VARIABLES
    pc,               \* position of the start routine
    arch,             \* "i386", "x86_64" or "macho": the build being run
    argc,             \* *pargc as handed over by the kernel
    reserve,          \* the value of WINEPRELOADRESERVE found in the environment, or NoEnv
    preload_info,     \* the reservation list, indexed from 0 as in the source
    i,                \* loop index of the reservation pass
    mem,              \* the address space: a set of disjoint mapped regions
    preloader_start,  \* page of the loader's first byte
    preloader_end,    \* page just past the loader's image, rounded up
    pargc,            \* address of argc on the incoming stack, [pg, off]
    av,               \* address of the auxv on the incoming stack, [pg, off]
    stack,            \* the words of the stack, by word index; word 0 is argc
    top,              \* *stack, as a word index
    avx,              \* word index of the auxv
    strs,             \* the bytes of the argument strings, by position
    comm,             \* the short name of the process (PR_SET_NAME)
    files,            \* the files that argv[1] and the PT_INTERP path name
    kernel,           \* what the kernel supplies and answers: auxv, refusals, placements, prctl
    stderr,           \* messages written to fd 2, in order
    exit_status,      \* Running, or the status passed to wld_exit
    unmapped,         \* the [lo, hi) page range last handed to munmap, if any
    main_binary_map,  \* struct wld_link_map of the main binary
    ld_so_map,        \* struct wld_link_map of the ELF interpreter
    info_ptr,         \* the store through wine_main_preload_info: where, and what pointer
    entry,            \* the address wld_start returned
    new_av,           \* the entries wld_start asks set_auxiliary_values to set
    delete_av,        \* the tags wld_start asks set_auxiliary_values to delete
    av_count,         \* the number of live auxv entries when set_auxiliary_values returns
    builtin_dlls,     \* the placeholder range of the Mach-O start routine
    regs,             \* the registers, in the trampoline
    syscalls,         \* the system calls and memory writes map_so_lib has made, in order;
                      \* on Mach-O those of the latest map_region call
    lookup,           \* the loaded image and the name find_symbol is called with
    symbol,           \* the address find_symbol returned, 0 for NULL
    message,          \* the format and the arguments wld_printf or fatal_error is called with
    buffer,           \* the bytes wld_vsprintf has stored, from buffer[0] on
    is_unix_thread    \* the flag the Mach-O start routine passes to wld_start by address

\* what the start routine is given and never changes
inputs == << arch, argc, reserve, preloader_start, preloader_end, pargc, av, files, kernel,
            lookup, message >>

\* what only the Mach-O start routine and only the trampoline touch
elsewhere == << builtin_dlls, regs, symbol, buffer, is_unix_thread >>

\* what only the rewriting of the auxv touches
locals == << new_av, delete_av, av_count >>

vars == << pc, arch, argc, reserve, preload_info, i, mem, preloader_start, preloader_end,
           pargc, av, stack, top, avx, strs, comm, files, kernel, stderr, exit_status,
           unmapped, main_binary_map, ld_so_map, info_ptr, entry, new_av, delete_av,
           av_count, builtin_dlls, regs, syscalls, lookup, symbol, message, buffer,
           is_unix_thread >>

-----------------------------------------------------------------------------
(* Bounds of the model *)

\* longest generated WINEPRELOADRESERVE string (longer ones come from LongStrings)
MaxStrLen == 3

-----------------------------------------------------------------------------
(* Constants of the program *)

\* char *reserve: NULL, or the text after "WINEPRELOADRESERVE="
NoEnv == [set |-> FALSE, str |-> << >>]
Env(s) == [set |-> TRUE, str |-> s]
Running == -1

\* the status of a process killed by SIGSEGV, as a shell reports it
Killed == 139

\* pointers and unsigned long are 32 bits on i386: 2^20 pages of 2^12 bytes
PageBytes == \h1000
AddrPages == \h100000

\* (char *)0x00110000, the last low-memory base preload_reserve looks at
LowMemLimit == \h110
\* (void *)0x10000, below which a failed reservation is not reported
WarnLimit == \h10
\* (char *)0x80000000 - page_size
TopPage == \h7ffff

Range(a, s) == [addr |-> a, size |-> s]

\* static struct wine_preload_info preload_info[], i386
StaticInfo ==
    << Range(\h00000, \h00001),     \* first page
       Range(\h00001, \h0000f),     \* low 64k
       Range(\h00010, \h00100),     \* DOS area
       Range(\h00110, \h67ef0),     \* low memory area
       Range(\h7f000, \h03000),     \* top-down allocations + shared heap + virtual heap
       Range(0, 0),                 \* PE exe range set with WINEPRELOADRESERVE
       Range(0, 0) >>               \* end of list

InfoSlots == Len(StaticInfo)
InitialInfo == [k \in 0 .. InfoSlots - 1 |-> StaticInfo[k + 1]]
NStatic == Cardinality({k \in 0 .. InfoSlots - 1 : InitialInfo[k].size # 0})

\* the address of preload_info[] in the data of a loader linked at page ps
PreloadInfoAt(ps) == ps * PageBytes + \h2040

\* nothing has been stored through wine_main_preload_info
NoStore == [at |-> 0, val |-> 0]


-----------------------------------------------------------------------------
(* preload_reserve: the parser *)

HexDigits == << "0", "1", "2", "3", "4", "5", "6", "7", "8", "9",
                "a", "b", "c", "d", "e", "f" >>
UpperDigits == << "A", "B", "C", "D", "E", "F" >>

\* the value of a hex digit, -1 for any other character
HexVal(c) ==
    IF \E k \in 1 .. 16 : HexDigits[k] = c
    THEN (CHOOSE k \in 1 .. 16 : HexDigits[k] = c) - 1
    ELSE IF \E k \in 1 .. 6 : UpperDigits[k] = c
    THEN (CHOOSE k \in 1 .. 6 : UpperDigits[k] = c) + 9
    ELSE -1

\* result = result * 16 + digit, in unsigned 32-bit arithmetic
Times16Plus(r, d) ==
    LET low == r.off * 16 + d
    IN  [pg |-> (r.pg * 16 + low \div PageBytes) % AddrPages, off |-> low % PageBytes]

\* result & ~page_mask, as a page number
RoundDown(r) == r.pg

\* (result + page_mask) & ~page_mask, as a page number (wraps to 0 at 4 GiB)
RoundUp(r) == (r.pg + (IF r.off > 0 THEN 1 ELSE 0)) % AddrPages

ParseInit == [result |-> [pg |-> 0, off |-> 0], start |-> 0, first |-> TRUE, error |-> FALSE]

\* a loop body that takes every '-' as the first
ParseCharAnyDash(st, c) ==
    IF HexVal(c) >= 0 THEN [st EXCEPT !.result = Times16Plus(st.result, HexVal(c))]
    ELSE IF c = "-" THEN [st EXCEPT !.start = RoundDown(st.result),
                                    !.result = [pg |-> 0, off |-> 0],
                                    !.first = FALSE]
    ELSE [st EXCEPT !.error = TRUE]

\* one turn of the loop "for (p = str; *p; p++)"
ParseChar(st, c) ==
    IF HexVal(c) >= 0 THEN [st EXCEPT !.result = Times16Plus(st.result, HexVal(c))]
    ELSE IF c = "-" THEN
        IF ~st.first THEN [st EXCEPT !.error = TRUE]
        ELSE [st EXCEPT !.start = RoundDown(st.result),
                        !.result = [pg |-> 0, off |-> 0],
                        !.first = FALSE]
    ELSE [st EXCEPT !.error = TRUE]

RECURSIVE ParseLoop(_, _, _)
ParseLoop(str, k, st) ==
    IF k > Len(str) \/ st.error THEN st
    ELSE ParseLoop(str, k + 1, ParseChar(st, str[k]))

\* the parsed [start, end) in pages, or the jump to the error label
ParseRange(str) ==
    LET st == ParseLoop(str, 1, ParseInit)
    IN  IF st.error THEN [error |-> TRUE, start |-> 0, end |-> 0]
        ELSE IF ~st.first THEN [error |-> FALSE, start |-> st.start, end |-> RoundUp(st.result)]
        ELSE IF st.result.pg # 0 \/ st.result.off # 0
             THEN [error |-> TRUE, start |-> 0, end |-> 0]
        ELSE [error |-> FALSE, start |-> 0, end |-> 0]

\* a check that finds no range in the way of the loader
OverlapsPreloaderNever(start, end, pstart, pend) == FALSE

\* "else if (end > preloader_start && start <= preloader_end)"
OverlapsPreloader(start, end, pstart, pend) == end > pstart /\ start <= pend

\* the sanity checks on the parsed range
SanityCheck(r, pstart, pend) ==
    IF r.end <= r.start THEN [start |-> 0, end |-> 0, warn |-> FALSE]
    ELSE IF OverlapsPreloader(r.start, r.end, pstart, pend)
         THEN [start |-> 0, end |-> 0, warn |-> TRUE]
    ELSE [start |-> r.start, end |-> r.end, warn |-> FALSE]

\* a loop that looks at no range
LowMemLoopNone(info, k, start, end) == [start |-> start, end |-> end, k |-> k]

\* "check for overlap with low memory areas": the loop from index k on;
\* the result carries the index at which the loop was left
RECURSIVE LowMemLoop(_, _, _, _)
LowMemLoop(info, k, start, end) ==
    IF info[k].size = 0 THEN [start |-> start, end |-> end, k |-> k]
    ELSE IF info[k].addr > LowMemLimit THEN [start |-> start, end |-> end, k |-> k]
    ELSE IF end <= info[k].addr + info[k].size THEN [start |-> 0, end |-> 0, k |-> k]
    ELSE LowMemLoop(info, k + 1,
                    IF start < info[k].addr + info[k].size
                    THEN info[k].addr + info[k].size ELSE start,
                    end)

\* "while (preload_info[i].size) i++"
RECURSIVE ListEnd(_, _)
ListEnd(info, k) == IF info[k].size = 0 THEN k ELSE ListEnd(info, k + 1)

\* a store of the end address in the place of the size
StoreRangeEnd(info, s) ==
    LET t == LowMemLoop(info, 0, s.start, s.end)
        k == ListEnd(info, t.k)
    IN  [info EXCEPT ![k] = Range(t.start, t.end)]

\* the end of preload_reserve: the range that the sanity checks left is cut
\* against the low memory areas and stored in the first free slot
StoreRange(info, s) ==
    LET t == LowMemLoop(info, 0, s.start, s.end)
        k == ListEnd(info, t.k)
    IN  [info EXCEPT ![k] = Range(t.start, t.end - t.start)]

\* preload_reserve: the new list, whether it ended in fatal_error, and
\* whether the overlap warning was printed
PreloadReserve(str, info, pstart, pend) ==
    LET r == ParseRange(str)
    IN  IF r.error THEN [fatal |-> TRUE, info |-> info, warn |-> FALSE]
        ELSE LET s == SanityCheck(r, pstart, pend)
             IN  [fatal |-> FALSE, info |-> StoreRange(info, s), warn |-> s.warn]

\* preload_reserve as built for Apple hosts, without the check against the
\* loader's extent
PreloadReserveApple(str, info) ==
    LET r == ParseRange(str)
    IN  IF r.error THEN [fatal |-> TRUE, info |-> info]
        ELSE [fatal |-> FALSE,
              info |-> StoreRange(info, IF r.end <= r.start
                                        THEN [start |-> 0, end |-> 0]
                                        ELSE [start |-> r.start, end |-> r.end])]

\* is_addr_reserved
IsAddrReserved(info, a) ==
    \E k \in 0 .. ListEnd(info, 0) - 1 :
        a >= info[k].addr /\ a < info[k].addr + info[k].size

\* a removal that clears the entry and leaves the others in place
RemovePreloadRangeClear(info, k) == [info EXCEPT ![k] = Range(0, 0)]

\* a removal that fills the hole with the last entry of the list
RemovePreloadRangeLast(info, k) ==
    [info EXCEPT ![k] = info[ListEnd(info, k) - 1], ![ListEnd(info, k) - 1] = Range(0, 0)]

\* remove_preload_range
RECURSIVE RemovePreloadRange(_, _)
RemovePreloadRange(info, k) ==
    IF info[k].size = 0 THEN info
    ELSE RemovePreloadRange([info EXCEPT ![k] = info[k + 1]], k + 1)

-----------------------------------------------------------------------------
(* The address space: disjoint regions [lo, hi) of pages, each with its     *)
(* protection (a subset of {"r", "w", "x"}; {} is PROT_NONE) and the call   *)
(* that created it.                                                         *)

PROT_NONE == {}

Region(lo, hi, prot, kind) == [lo |-> lo, hi |-> hi, prot |-> prot, kind |-> kind]

Max(a, b) == IF a > b THEN a ELSE b
Min(a, b) == IF a < b THEN a ELSE b

\* what is left of region r outside [lo, hi)
Outside(r, lo, hi) ==
    (IF r.lo < lo THEN {[r EXCEPT !.hi = Min(r.hi, lo)]} ELSE {})
    \cup (IF r.hi > hi THEN {[r EXCEPT !.lo = Max(r.lo, hi)]} ELSE {})

\* the part of region r inside [lo, hi), if any
Inside(r, lo, hi) ==
    IF r.lo < hi /\ lo < r.hi
    THEN {[r EXCEPT !.lo = Max(r.lo, lo), !.hi = Min(r.hi, hi)]} ELSE {}

\* munmap( lo, hi - lo )
Munmap(m, lo, hi) == IF hi <= lo THEN m ELSE UNION {Outside(r, lo, hi) : r \in m}

\* a successful mmap( lo, hi - lo, prot, MAP_FIXED | ... ): replaces what was there
MmapFixed(m, lo, hi, prot, kind) ==
    IF hi <= lo THEN m ELSE Munmap(m, lo, hi) \cup {Region(lo, hi, prot, kind)}

\* mprotect( lo, hi - lo, prot ) on the mapped pages of [lo, hi)
Mprotect(m, lo, hi, prot) ==
    IF hi <= lo THEN m
    ELSE Munmap(m, lo, hi)
         \cup UNION {{[q EXCEPT !.prot = prot] : q \in Inside(r, lo, hi)} : r \in m}

\* page p is mapped / the whole of [lo, hi) is free
IsMapped(m, p) == \E r \in m : r.lo <= p /\ p < r.hi
IsFree(m, lo, hi) == \A r \in m : r.hi <= lo \/ hi <= r.lo

-----------------------------------------------------------------------------
(* map_so_lib.  Byte addresses; every address the model uses is below      *)
(* 2^31, where signed and unsigned 32-bit arithmetic agree.  A file offset  *)
(* from 2^31 on is written as the negative number with the same 32 bits, so *)
(* that sums wrap as they do in the code, and is compared with ULess.       *)

\* sizeof(buf), sizeof(Elf32_Phdr), sizeof(Elf32_Dyn), the slots of loadcmds[]
HeaderBufSize == \h800
PhdrSize == 32
DynSize == 8
MaxLoadCmds == 16

Phdr(type, flags, offset, vaddr, filesz, memsz, align) ==
    [p_type |-> type, p_flags |-> flags, p_offset |-> offset, p_vaddr |-> vaddr,
     p_filesz |-> filesz, p_memsz |-> memsz, p_align |-> align]

\* a < b for unsigned 32-bit numbers
ULess(a, b) == IF (a < 0) = (b < 0) THEN a < b ELSE b < 0

\* x & ~(a - 1) for a power of two a, and the rounding to whole pages
AlignDown(x, a) == x - (x % a)
PageUp(x) == ((x + PageBytes - 1) \div PageBytes) * PageBytes
PageDown(x) == (x \div PageBytes) * PageBytes
PageOf(x) == x \div PageBytes

NoLinkMap ==
    [l_addr |-> 0, l_ld |-> 0, l_phdr |-> 0, l_entry |-> 0, l_ldnum |-> 0, l_phnum |-> 0,
     l_map_start |-> 0, l_map_end |-> 0, l_interp |-> 0]

\* the checks made on the first 2 KiB of the file; "" when it passes
HeaderError(f) ==
    IF ~f.exists THEN "could not open"
    ELSE IF f.length < HeaderBufSize THEN "failed to read ELF header"
    ELSE IF ~f.magic THEN "not an ELF binary"
    ELSE IF ~f.machine THEN "not an i386 ELF binary"
    ELSE IF f.e_phnum > MaxLoadCmds THEN "not enough space for load commands"
    ELSE IF ULess(HeaderBufSize, f.e_phoff + f.e_phnum * PhdrSize)
         THEN "not enough space for ELF headers"
    ELSE ""

\* the load command of one PT_LOAD program header
LoadCmd(ph) ==
    [mapstart |-> AlignDown(ph.p_vaddr, ph.p_align),
     mapend   |-> PageUp(ph.p_vaddr + ph.p_filesz),
     dataend  |-> ph.p_vaddr + ph.p_filesz,
     allocend |-> ph.p_vaddr + ph.p_memsz,
     mapoff   |-> AlignDown(ph.p_offset, ph.p_align),
     prot     |-> ph.p_flags]

\* the switch on p_type, for the program headers from k on
RECURSIVE HeaderWalk(_, _, _)
HeaderWalk(f, k, w) ==
    IF k > f.e_phnum \/ w.fatal # "" THEN w
    ELSE LET ph == f.ph[k]
         IN  HeaderWalk(f, k + 1,
               CASE ph.p_type = "PT_DYNAMIC" ->
                      [w EXCEPT !.l.l_ld = ph.p_vaddr, !.l.l_ldnum = ph.p_memsz \div DynSize]
                 [] ph.p_type = "PT_PHDR" -> [w EXCEPT !.l.l_phdr = ph.p_vaddr]
                 [] ph.p_type = "PT_LOAD" ->
                      IF ph.p_align % PageBytes # 0
                      THEN [w EXCEPT !.fatal = "ELF load command alignment not page-aligned"]
                      ELSE IF (ph.p_vaddr - ph.p_offset) % ph.p_align # 0
                      THEN [w EXCEPT !.fatal = "ELF load command address/offset not properly aligned"]
                      ELSE [w EXCEPT !.cmds = Append(w.cmds, LoadCmd(ph))]
                 [] ph.p_type = "PT_INTERP" -> [w EXCEPT !.l.l_interp = ph.p_vaddr]
                 [] OTHER -> w)

\* "Found the program header in this segment"
FindPhdr(f, c, phdr) ==
    IF /\ phdr = 0
       /\ ~ULess(f.e_phoff, c.mapoff)
       /\ ~ULess(c.mapend - c.mapstart + c.mapoff, f.e_phoff + f.e_phnum * PhdrSize)
    THEN c.mapstart + f.e_phoff - c.mapoff
    ELSE phdr

\* the zero fill after the file data of one load command: the page holding
\* the end of the data is left with the segment's protection when it had to
\* be made writable, and the whole pages after it are mapped anonymously
ZeroFill(m, c, addr) ==
    LET zero == addr + c.dataend
        zeroend == PageUp(addr + c.allocend)
        zeropage == IF zeroend < PageUp(zero) THEN zeroend ELSE PageUp(zero)
        m1 == IF zeropage > zero /\ "w" \notin c.prot
              THEN Mprotect(m, PageOf(zero), PageOf(zero) + 1, c.prot)
              ELSE m
    IN  IF c.allocend <= c.dataend THEN m
        ELSE IF zeroend > zeropage
             THEN MmapFixed(m1, PageOf(zeropage), PageOf(zeroend), c.prot, "anon")
             ELSE m1

\* "Map the segment contents from the file", MAP_FIXED
MapSegment(m, c, addr) ==
    IF c.mapend > c.mapstart
    THEN MmapFixed(m, PageOf(addr + c.mapstart), PageOf(addr + c.mapend), c.prot, "image")
    ELSE m

\* the loop over the load commands from k on; the first load command of an
\* ET_DYN object is entered at "postmap", after its mapping step
RECURSIVE MapLoop(_, _, _, _, _)
MapLoop(f, cmds, k, addr, acc) ==
    IF k > Len(cmds) THEN acc
    ELSE LET c == cmds[k]
             m1 == IF k = 1 /\ f.e_type = "ET_DYN" THEN acc.mem
                   ELSE MapSegment(acc.mem, c, addr)
         IN  MapLoop(f, cmds, k + 1, addr,
                     [mem |-> ZeroFill(m1, c, addr), phdr |-> FindPhdr(f, c, acc.phdr)])

\* a sanity check that lets every object through
BinaryOverlapsNever(mapstart, maplength, pstart, pend) == FALSE

\* the sanity check of a fixed-address object against the loader's extent
BinaryOverlapsPreloader(mapstart, maplength, pstart, pend) ==
    mapstart + maplength > pstart * PageBytes /\ mapstart <= pend * PageBytes

\* the reading of the headers: the checks on the first 2 KiB, then the walk
\* over the program headers
HeaderResult(f) ==
    IF HeaderError(f) # ""
    THEN [fatal |-> HeaderError(f), l |-> NoLinkMap, cmds |-> << >>]
    ELSE HeaderWalk(f, 1,
           [fatal |-> "", cmds |-> << >>,
            l |-> [NoLinkMap EXCEPT !.l_phnum = f.e_phnum, !.l_entry = f.e_entry]])

\* map_so_lib( name, l ) on file f; base is the address the kernel chooses
\* for the mapping of an ET_DYN object
MapSoLib(f, m, base, pstart, pend) ==
    LET w == HeaderResult(f)
        cmds == w.cmds
        n == Len(cmds)
        maplength == cmds[n].allocend - cmds[1].mapstart
        addr == IF f.e_type = "ET_DYN" THEN base - cmds[1].mapstart ELSE 0
        m0 == IF f.e_type = "ET_DYN"
              THEN Mprotect(
                     MmapFixed(m, PageOf(base), PageOf(PageUp(base + maplength)),
                               cmds[1].prot, "image"),
                     PageOf(addr + cmds[1].mapend),
                     PageOf(PageUp(addr + cmds[n].allocend)), PROT_NONE)
              ELSE m
        r == MapLoop(f, cmds, 1, addr, [mem |-> m0, phdr |-> w.l.l_phdr])
    IN  IF w.fatal # "" THEN [fatal |-> w.fatal, l |-> NoLinkMap, mem |-> m]
        ELSE IF n = 0 THEN [fatal |-> "no segments to load", l |-> NoLinkMap, mem |-> m]
        ELSE IF /\ f.e_type # "ET_DYN"
                /\ BinaryOverlapsPreloader(cmds[1].mapstart, maplength, pstart, pend)
             THEN [fatal |-> "binary overlaps preloader", l |-> NoLinkMap, mem |-> m]
        ELSE [fatal |-> IF r.phdr = 0 THEN "no program header" ELSE "",
              mem |-> r.mem,
              l |-> [w.l EXCEPT !.l_addr = addr,
                                !.l_map_start = cmds[1].mapstart + addr,
                                !.l_map_end = cmds[1].mapstart + addr + maplength,
                                !.l_phdr = r.phdr + addr,
                                !.l_entry = f.e_entry + addr]]

-----------------------------------------------------------------------------
(* The calls map_so_lib makes, in order: wld_open, wld_read, wld_mmap,      *)
(* wld_mprotect, wld_memset and wld_close, with the byte address and the    *)
(* length each is given.  how tells a mapping of the file at the address    *)
(* the kernel chose ("file") from the MAP_FIXED mappings of the file        *)
(* ("file_fixed") and of zero pages ("anon_fixed").                         *)

Call(name, op, addr, len, prot, how) ==
    [file |-> name, op |-> op, addr |-> addr, len |-> len, prot |-> prot, how |-> how]

\* a zero fill that maps the zero pages and leaves the last file page as it is
ZeroFillCallsPagesOnly(name, c, addr) ==
    LET zeropage == PageUp(addr + c.dataend)
        zeroend == PageUp(addr + c.allocend)
    IN  IF zeroend > zeropage
        THEN << Call(name, "mmap", zeropage, zeroend - zeropage, c.prot, "anon_fixed") >>
        ELSE << >>

\* the calls of the zero fill after the file data of one load command
ZeroFillCalls(name, c, addr) ==
    LET zero == addr + c.dataend
        zeroend == PageUp(addr + c.allocend)
        zeropage == IF zeroend < PageUp(zero) THEN zeroend ELSE PageUp(zero)
        readonly == "w" \notin c.prot
    IN  IF c.allocend <= c.dataend THEN << >>
        ELSE (IF zeropage > zero
              THEN (IF readonly
                    THEN << Call(name, "mprotect", PageDown(zero), PageBytes,
                                 c.prot \cup {"w"}, "") >>
                    ELSE << >>)
                   \o << Call(name, "memset", zero, zeropage - zero, {}, "") >>
                   \o (IF readonly
                       THEN << Call(name, "mprotect", PageDown(zero), PageBytes, c.prot, "") >>
                       ELSE << >>)
              ELSE << >>)
             \o (IF zeroend > zeropage
                 THEN << Call(name, "mmap", zeropage, zeroend - zeropage, c.prot,
                              "anon_fixed") >>
                 ELSE << >>)

\* the call that maps the file data of one load command
MapSegmentCalls(name, c, addr) ==
    IF c.mapend > c.mapstart
    THEN << Call(name, "mmap", addr + c.mapstart, c.mapend - c.mapstart, c.prot,
                 "file_fixed") >>
    ELSE << >>

\* a loop that gives the load commands from k on their zero fill only
RECURSIVE MapLoopCallsTailOnly(_, _, _, _, _)
MapLoopCallsTailOnly(name, f, cmds, k, addr) ==
    IF k > Len(cmds) THEN << >>
    ELSE ZeroFillCalls(name, cmds[k], addr)
         \o MapLoopCallsTailOnly(name, f, cmds, k + 1, addr)

\* a loop that enters at postmap whatever the type of the object
RECURSIVE MapLoopCallsPostmap(_, _, _, _, _)
MapLoopCallsPostmap(name, f, cmds, k, addr) ==
    IF k > Len(cmds) THEN << >>
    ELSE (IF k = 1 THEN << >> ELSE MapSegmentCalls(name, cmds[k], addr))
         \o ZeroFillCalls(name, cmds[k], addr)
         \o MapLoopCallsPostmap(name, f, cmds, k + 1, addr)

\* the calls of the loop over the load commands from k on
RECURSIVE MapLoopCalls(_, _, _, _, _)
MapLoopCalls(name, f, cmds, k, addr) ==
    IF k > Len(cmds) THEN << >>
    ELSE (IF k = 1 /\ f.e_type = "ET_DYN" THEN << >>
          ELSE MapSegmentCalls(name, cmds[k], addr))
         \o ZeroFillCalls(name, cmds[k], addr)
         \o MapLoopCalls(name, f, cmds, k + 1, addr)

\* the calls of map_so_lib( name, l ) on file f
MapSoLibCalls(name, f, m, base, pstart, pend) ==
    LET w == HeaderResult(f)
        cmds == w.cmds
        n == Len(cmds)
        maplength == cmds[n].allocend - cmds[1].mapstart
        addr == IF f.e_type = "ET_DYN" THEN base - cmds[1].mapstart ELSE 0
        open == << Call(name, "open", 0, 0, {}, "") >>
        read == << Call(name, "read", 0, HeaderBufSize, {}, "") >>
        r == MapSoLib(f, m, base, pstart, pend)
    IN  IF ~f.exists THEN open
        ELSE IF w.fatal # "" \/ n = 0 THEN open \o read
        ELSE IF /\ f.e_type # "ET_DYN"
                /\ BinaryOverlapsPreloader(cmds[1].mapstart, maplength, pstart, pend)
             THEN open \o read
        ELSE open \o read
             \o (IF f.e_type = "ET_DYN"
                 THEN << Call(name, "mmap", base, maplength, cmds[1].prot, "file"),
                         Call(name, "mprotect", addr + cmds[1].mapend,
                              cmds[n].allocend - cmds[1].mapend, PROT_NONE, "") >>
                 ELSE << >>)
             \o MapLoopCalls(name, f, cmds, 1, addr)
             \o (IF r.fatal # "" THEN << >> ELSE << Call(name, "close", 0, 0, {}, "") >>)

\* what one call does to the address space
ApplyCall(m, c) ==
    LET lo == PageOf(c.addr)
        hi == PageOf(PageUp(c.addr + c.len))
    IN  IF c.op = "mmap"
        THEN MmapFixed(m, lo, hi, c.prot, IF c.how = "anon_fixed" THEN "anon" ELSE "image")
        ELSE IF c.op = "mprotect" THEN Mprotect(m, lo, hi, c.prot)
        ELSE m

\* the address space after the calls from k on
RECURSIVE Replay(_, _, _)
Replay(m, calls, k) ==
    IF k > Len(calls) THEN m ELSE Replay(ApplyCall(m, calls[k]), calls, k + 1)

\* what a call leaves in the bytes it covers: wld_memset and a mapping of
\* zero pages leave zeros, a mapping of the file leaves the file's bytes
Zeroes(c) == c.op = "memset" \/ (c.op = "mmap" /\ c.how = "anon_fixed")
Fills(c) == c.op = "mmap" /\ c.how # "anon_fixed"
CallEnd(c) == IF c.op = "mmap" THEN PageUp(c.addr + c.len) ELSE c.addr + c.len

\* every byte of [lo, hi) was last written with zero by one of the first k
\* calls
RECURSIVE ReadsZero(_, _, _, _)
ReadsZero(calls, k, lo, hi) ==
    IF hi <= lo THEN TRUE
    ELSE IF k = 0 THEN FALSE
    ELSE LET c == calls[k]
             a == c.addr
             b == CallEnd(c)
         IN  IF b <= lo \/ hi <= a \/ ~(Zeroes(c) \/ Fills(c))
             THEN ReadsZero(calls, k - 1, lo, hi)
             ELSE IF Fills(c) THEN FALSE
             ELSE /\ ReadsZero(calls, k - 1, lo, Min(hi, a))
                  /\ ReadsZero(calls, k - 1, Max(lo, b), hi)

-----------------------------------------------------------------------------
(* The incoming stack and set_auxiliary_values.  The stack is a function   *)
(* from word indices to words; index 0 is the word the kernel's stack      *)
(* pointer names (argc).  An auxv entry is two words, a_type then a_val.   *)
(* wb is sizeof(long): 4 on i386, 8 on x86_64.                              *)

AT_NULL == 0
AT_PHDR == 3
AT_PHENT == 4
AT_PHNUM == 5
AT_PAGESZ == 6
AT_BASE == 7
AT_FLAGS == 8
AT_ENTRY == 9
AT_UID == 11
AT_EUID == 12
AT_GID == 13
AT_EGID == 14
AT_PLATFORM == 15
AT_HWCAP == 16
AT_SYSINFO == 32
AT_SYSINFO_EHDR == 33

Entry(t, v) == [a_type |-> t, a_val |-> v]

\* av[k] of the array that starts at word index a
AvType(st, a, k) == st[a + 2 * k]
AvVal(st, a, k) == st[a + 2 * k + 1]

\* "while (av[av_count].a_type != AT_NULL) av_count++"
RECURSIVE AvCount(_, _, _)
AvCount(st, a, k) == IF AvType(st, a, k) = AT_NULL THEN k ELSE AvCount(st, a, k + 1)

\* the first i < n with av[i].a_type = t, or n
RECURSIVE AvFind(_, _, _, _, _)
AvFind(st, a, n, t, k) ==
    IF k >= n \/ AvType(st, a, k) = t THEN k ELSE AvFind(st, a, n, t, k + 1)

\* get_auxiliary
GetAuxiliary(st, a, t, def) ==
    LET n == AvCount(st, a, 0)
        k == AvFind(st, a, n, t, 0)
    IN  IF k < n THEN AvVal(st, a, k) ELSE def

\* "delete unwanted values": the tags del[j..] against the array of n entries
RECURSIVE DeleteLoop(_, _, _, _, _)
DeleteLoop(st, a, del, j, acc) ==
    IF j > Len(del) THEN acc
    ELSE LET k == AvFind(acc.st, a, acc.n, del[j], 0)
         IN  IF k < acc.n
             THEN DeleteLoop(st, a, del, j + 1,
                    [st |-> [acc.st EXCEPT ![a + 2 * k] = AvType(acc.st, a, acc.n - 1),
                                           ![a + 2 * k + 1] = AvVal(acc.st, a, acc.n - 1),
                                           ![a + 2 * (acc.n - 1)] = AT_NULL],
                     n |-> acc.n - 1, deleted |-> acc.deleted + 1])
             ELSE DeleteLoop(st, a, del, j + 1, acc)

\* "count how many values we have in new_av that aren't in av"
NewCount(st, a, n, new) ==
    Cardinality({j \in 1 .. Len(new) : AvFind(st, a, n, new[j].a_type, 0) = n})

\* a stack top left where the subtraction put it
AlignWordNot(dst, a0, wb) == dst

\* (unsigned long)dst & ~15, for the word index dst of a stack whose word 0
\* is at byte address a0
AlignWord(dst, a0, wb) == dst - ((a0 + dst * wb) % 16) \div wb

\* the copy of len words from src to dst (forwards when dst < src, backwards
\* when dst > src, so that every word is read before it is overwritten)
MoveWords(st, src, dst, len) ==
    [k \in DOMAIN st |-> IF dst <= k /\ k < dst + len THEN st[k - dst + src] ELSE st[k]]

\* a loop that overwrites the tags it finds and adds none
RECURSIVE SetLoopPresent(_, _, _, _)
SetLoopPresent(a, new, j, acc) ==
    IF j > Len(new) THEN acc
    ELSE LET k == AvFind(acc.st, a, acc.n, new[j].a_type, 0)
         IN  IF k < acc.n
             THEN SetLoopPresent(a, new, j + 1,
                                 [acc EXCEPT !.st[a + 2 * k + 1] = new[j].a_val])
             ELSE SetLoopPresent(a, new, j + 1, acc)

\* "now set the values"
RECURSIVE SetLoop(_, _, _, _)
SetLoop(a, new, j, acc) ==
    IF j > Len(new) THEN acc
    ELSE LET k == AvFind(acc.st, a, acc.n, new[j].a_type, 0)
         IN  IF k < acc.n
             THEN SetLoop(a, new, j + 1,
                          [acc EXCEPT !.st[a + 2 * k + 1] = new[j].a_val])
             ELSE SetLoop(a, new, j + 1,
                          [st |-> [acc.st EXCEPT ![a + 2 * acc.n] = new[j].a_type,
                                                 ![a + 2 * acc.n + 1] = new[j].a_val],
                           n |-> acc.n + 1])

\* the new stack top: moved by the net growth, then rounded down to 16 bytes
NewStackTop(src, grow, a0, wb) == AlignWord(src - grow * 2, a0, wb)

\* set_auxiliary_values( av, new_av, delete_av, stack ): the stack, the new
\* *stack, the moved av and the number of live entries
SetAuxiliaryValues(st, a, new, del, src, a0, wb) ==
    LET d == DeleteLoop(st, a, del, 1, [st |-> st, n |-> AvCount(st, a, 0), deleted |-> 0])
        new_count == NewCount(d.st, a, d.n, new)
        dst == NewStackTop(src, new_count - d.deleted, a0, wb)
        len == a + 2 * (d.n + 1) - src
        moved == IF dst # src THEN MoveWords(d.st, src, dst, len) ELSE d.st
        a1 == a + (dst - src)
        r == SetLoop(a1, new, 1, [st |-> moved, n |-> d.n])
    IN  [st |-> r.st, top |-> dst, av |-> a1, n |-> r.n]

-----------------------------------------------------------------------------
(* Messages on fd 2 *)

Msg(k, a) == [msg |-> k, arg |-> a]

-----------------------------------------------------------------------------

-----------------------------------------------------------------------------
(* set_process_name.  The argument strings are bytes at positions          *)
(* 1, 2, ...; a pointer to a string is the position of its first byte.     *)

NUL == ""

\* "while (*end) end++"
RECURSIVE StrEnd(_, _)
StrEnd(s, p) == IF s[p] = NUL THEN p ELSE StrEnd(s, p + 1)

\* "for (p = name = argv[1]; *p; p++) if (p[0] == '/' && p[1]) name = p + 1"
RECURSIVE BaseName(_, _, _)
BaseName(s, p, name) ==
    IF s[p] = NUL THEN name
    ELSE BaseName(s, p + 1, IF s[p] = "/" /\ s[p + 1] # NUL THEN p + 1 ELSE name)

\* the string that starts at position p
StrAt(s, p) == [k \in 1 .. StrEnd(s, p) - p |-> s[p + k - 1]]

\* a set_process_name that moves the strings down and leaves argv[] as it was
SetProcessNameNoAdjust(st, s, n, prctl_ok) ==
    LET end == StrEnd(s, st[n])
        off == st[2] - st[1]
    IN  IF ~prctl_ok THEN [st |-> st, strs |-> s, comm |-> << >>]
        ELSE [comm |-> StrAt(s, BaseName(s, st[2], st[2])),
              strs |-> [q \in DOMAIN s |->
                          IF end - off <= q /\ q < end THEN NUL
                          ELSE IF st[2] - off <= q /\ q <= end - off THEN s[q + off]
                          ELSE s[q]],
              st |-> st]

\* set_process_name( argc, argv ), argv[k] being word 1 + k of the stack
SetProcessName(st, s, n, prctl_ok) ==
    LET name == BaseName(s, st[2], st[2])
        end == StrEnd(s, st[n])
        off == st[2] - st[1]
    IN  IF ~prctl_ok THEN [st |-> st, strs |-> s, comm |-> << >>]
        ELSE [comm |-> StrAt(s, name),
              strs |-> [q \in DOMAIN s |->
                          IF end - off <= q /\ q < end THEN NUL
                          ELSE IF st[2] - off <= q /\ q <= end - off THEN s[q + off]
                          ELSE s[q]],
              st |-> [k \in DOMAIN st |->
                          IF 2 <= k /\ k <= n THEN st[k] - off ELSE st[k]]]

-----------------------------------------------------------------------------
(* What the kernel hands to the ELF start routine *)

\* the stack words the kernel never wrote, below the stack pointer
Unwritten == -1

\* sizeof(long) of the build
WordBytes(a) == IF a = "x86_64" THEN 8 ELSE 4

\* the room the trampoline leaves below the incoming stack pointer, in words:
\* 136 bytes on i386, 144 bytes less the slot of the saved pointer on x86_64
ScratchWords(a) == IF a = "x86_64" THEN 17 ELSE 34

\* the argument strings: argv[0], argv[1] with a directory part, argv[2]
ArgStrings == << << "w", "p" >>, << "b", "/", "w" >>, << "x" >> >>

RECURSIVE StrBytes(_, _)
StrBytes(ss, k) == IF k > Len(ss) THEN << >> ELSE ss[k] \o << NUL >> \o StrBytes(ss, k + 1)

RECURSIVE StrPtrs(_, _, _)
StrPtrs(ss, k, p) ==
    IF k > Len(ss) THEN << >> ELSE << p >> \o StrPtrs(ss, k + 1, p + Len(ss[k]) + 1)

\* the bytes of the first n argument strings and of one environment string
KernelStrs(n) ==
    LET b == StrBytes(SubSeq(ArgStrings, 1, n), 1) \o << "E", NUL >>
    IN  [q \in 1 .. Len(b) |-> b[q]]

\* what the kernel reports for the loader itself; vdso is the byte address of
\* the vDSO, 0 when the kernel maps none
KernelAuxv(vdso, missing) ==
    LET sys == IF vdso = 0 THEN << >>
               ELSE << Entry(AT_SYSINFO, vdso + \h420), Entry(AT_SYSINFO_EHDR, vdso) >>
        rest == << Entry(AT_HWCAP, \h1f8b), Entry(AT_PAGESZ, PageBytes),
                   Entry(AT_PHDR, \h7c400034), Entry(AT_PHENT, PhdrSize),
                   Entry(AT_PHNUM, 3), Entry(AT_BASE, 0), Entry(AT_FLAGS, 0),
                   Entry(AT_ENTRY, \h7c400100), Entry(AT_UID, 1000), Entry(AT_EUID, 1000),
                   Entry(AT_GID, 100), Entry(AT_EGID, 100), Entry(AT_PLATFORM, \h7ffe1f00) >>
    IN  SelectSeq(sys \o rest, LAMBDA e : e.a_type \notin missing)

RECURSIVE Flatten(_, _)
Flatten(a, k) ==
    IF k > Len(a) THEN << >> ELSE << a[k].a_type, a[k].a_val >> \o Flatten(a, k + 1)

\* the stack at entry: argc, argv, NULL, envp, NULL, auxv, AT_NULL, and one
\* word of what lies above; below word 0 is the trampoline's scratch room
KernelStack(a, n, auxv) ==
    LET ptrs == StrPtrs(SubSeq(ArgStrings, 1, n), 1, 1)
        envp == << Len(StrBytes(SubSeq(ArgStrings, 1, n), 1)) + 1 >>
        w == << n >> \o ptrs \o << 0 >> \o envp \o << 0 >> \o Flatten(auxv, 1)
             \o << AT_NULL, 0, \h5555 >>
    IN  [k \in (0 - ScratchWords(a)) .. Len(w) - 1 |-> IF k < 0 THEN Unwritten ELSE w[k + 1]]

\* "p = argv + *pargc + 1", one environment string, "av = p + 1"
AvIndex(n) == n + 4

AddBytes(a, n) ==
    [pg |-> a.pg + (a.off + n) \div PageBytes, off |-> (a.off + n) % PageBytes]

StackPages == \h20

\* the bytes the auxv and the strings after it take, at most
AboveAv == \h100

\* the loader's image, the stack (down from the strings that follow the
\* auxv) and the vDSO
InitialMem(ps, pe, sp, avAt, vdso) ==
    { Region(ps, pe, {"r", "w", "x"}, "loader"),
      Region(sp.pg - StackPages, AddBytes(avAt, AboveAv).pg + 1, {"r", "w"}, "stack") }
    \cup (IF vdso = 0 THEN {} ELSE {Region(PageOf(vdso), PageOf(vdso) + 1, {"r", "x"}, "vdso")})

\* an ELF file as map_so_lib reads it; sym is the st_value of the symbol
\* wine_main_preload_info, 0 when the file does not define it
ElfFile(type, phoff, e, ph, sym) ==
    [exists |-> TRUE, length |-> \h4000, magic |-> TRUE, machine |-> TRUE,
     e_type |-> type, e_phoff |-> phoff, e_entry |-> e, e_phnum |-> Len(ph), ph |-> ph,
     sym |-> sym]

NoFile == [ElfFile("ET_DYN", 52, 0, << >>, 0) EXCEPT !.exists = FALSE]

\* a text and a data segment at vaddr v, the data segment with 0x2200 - 0x120
\* bytes of bss
Segments(v) ==
    << Phdr("PT_LOAD", {"r", "x"}, 0, v, \h1800, \h1800, \h1000),
       Phdr("PT_LOAD", {"r", "w"}, \h1f00, v + \h2f00, \h120, \h2200, \h1000),
       Phdr("PT_DYNAMIC", {"r", "w"}, \h1f10, v + \h2f10, \h80, \h80, 4) >>

\* a position-independent main binary with PT_PHDR and PT_INTERP
MainPie ==
    ElfFile("ET_DYN", 52, \h400,
            << Phdr("PT_PHDR", {"r"}, 52, 52, 160, 160, 4),
               Phdr("PT_INTERP", {"r"}, \h114, \h114, 19, 19, 1) >> \o Segments(0), \h3010)

\* a fixed-address main binary without PT_PHDR
MainExec(v) ==
    ElfFile("ET_EXEC", 52, v + \h400,
            << Phdr("PT_INTERP", {"r"}, \h114, v + \h114, 19, 19, 1) >> \o Segments(v),
            v + \h3010)

\* a main binary that does not define wine_main_preload_info
MainPlain == [MainExec(\h7bf00000) EXCEPT !.sym = 0]

\* a main binary without PT_INTERP
MainStatic == ElfFile("ET_DYN", 52, \h400, Segments(0), \h3010)

\* the ELF interpreter: one segment whose last page is part bss
InterpDyn ==
    ElfFile("ET_DYN", 52, \h100,
            << Phdr("PT_LOAD", {"r", "x"}, 0, 0, \h1f80, \h2f00, \h1000),
               Phdr("PT_NOTE", {"r"}, \h200, \h200, 32, 32, 4) >>, 0)

NotElf == [InterpDyn EXCEPT !.magic = FALSE]

\* the files argv[1] may name
MainFiles ==
    { MainPie, MainStatic, MainExec(\h7bf00000), MainExec(\h08048000), MainExec(\h7c3fe000),
      MainPlain, NoFile, NotElf }

\* the files the PT_INTERP path of the main binary may name
InterpFiles == { InterpDyn, NoFile }

\* what wld_getuid, wld_geteuid, wld_getgid and wld_getegid return
KernelIds == [uid |-> 1001, euid |-> 1002, gid |-> 101, egid |-> 102]

-----------------------------------------------------------------------------
(* find_symbol and its two hash functions.  An unsigned int is a pair of    *)
(* 16-bit halves [hi, lo], so that the arithmetic wraps at 2^32 as in the   *)
(* code.                                                                    *)

Half == 65536
Word32(hi, lo) == [hi |-> hi, lo |-> lo]

\* the character codes of the names used
Ascii ==
    [c \in {"a", "b", "d", "e", "f", "i", "l", "m", "n", "o", "p", "r", "w", "_"} |->
       CASE c = "a" -> 97  [] c = "b" -> 98  [] c = "d" -> 100 [] c = "e" -> 101
         [] c = "f" -> 102 [] c = "i" -> 105 [] c = "l" -> 108 [] c = "m" -> 109
         [] c = "n" -> 110 [] c = "o" -> 111 [] c = "p" -> 112 [] c = "r" -> 114
         [] c = "w" -> 119 [] c = "_" -> 95]

\* a ^ b for numbers below 2^n
RECURSIVE XorBits(_, _, _)
XorBits(a, b, n) ==
    IF n = 0 THEN 0
    ELSE 2 * XorBits(a \div 2, b \div 2, n - 1) + (IF a % 2 = b % 2 THEN 0 ELSE 1)

\* one turn of the loop of wld_elf_hash on character code c
ElfHashStep(h, c) ==
    LET lo == h.lo * 16 + c
        shifted == Word32((h.hi * 16 + lo \div Half) % Half, lo % Half)
        hi == shifted.hi \div 4096
        cleared == Word32(shifted.hi % 4096, shifted.lo)
    IN  Word32(cleared.hi,
               cleared.lo - ((cleared.lo \div 16) % 16) * 16
                 + XorBits((cleared.lo \div 16) % 16, hi, 4) * 16)

\* h is an unsigned int
IsWord32(h) == h.hi \in 0 .. Half - 1 /\ h.lo \in 0 .. Half - 1

\* wld_elf_hash( name ), from character k on, hash being h after the turns
\* before
RECURSIVE WldElfHash(_, _, _)
WldElfHash(name, k, h) ==
    IF k > Len(name) \/ ~IsWord32(h) THEN h
    ELSE WldElfHash(name, k + 1, ElfHashStep(h, Ascii[name[k]]))

\* gnu_hash( name ), from character k on: "h = h * 33 + c"
RECURSIVE GnuHash(_, _, _)
GnuHash(name, k, h) ==
    IF k > Len(name) \/ ~IsWord32(h) THEN h
    ELSE LET lo == h.lo * 33 + Ascii[name[k]]
         IN  GnuHash(name, k + 1, Word32((h.hi * 33 + lo \div Half) % Half, lo % Half))

\* "hash % nbuckets"
ModWord(h, n) == ((h.hi % n) * (Half % n) + (h.lo % n)) % n

\* "x & ~1u" and "x & 1u"
ClearBit0(h) == Word32(h.hi, h.lo - (h.lo % 2))
Bit0(h) == h.lo % 2

\* a dynamic symbol; st_shndx 0 is SHN_UNDEF
Sym(name, bind, type, shndx, value) ==
    [st_name |-> name, st_bind |-> bind, st_type |-> type, st_shndx |-> shndx,
     st_value |-> value]

\* word k of a table in memory, and symtab[idx]
WordOf(t, k) == t[k + 1]
SymAt(img, idx) == img.symtab[idx + 1]

\* the dynamic section of img has an entry with tag t
HasTag(img, t) == \E k \in 1 .. Len(img.dyn) : img.dyn[k] = t

\* the test both walks make on symtab[idx]
SymMatches(img, idx, var, type) ==
    /\ SymAt(img, idx).st_bind = "STB_GLOBAL"
    /\ SymAt(img, idx).st_type = type
    /\ SymAt(img, idx).st_name = var

\* "found:"
SymFound(img, idx) == SymAt(img, idx).st_value + img.l_addr

\* sizeof(ElfW(Addr)) / sizeof(Elf32_Word) on i386
AddrWords == 1

\* the do-while loop over the chain of the new style table, chains being the
\* word index of chains[0]
RECURSIVE GnuChain(_, _, _, _, _, _)
GnuChain(img, chains, hash, idx, var, type) ==
    LET c == WordOf(img.gnu_hashtab, chains + idx)
    IN  IF ClearBit0(c) = ClearBit0(hash) /\ SymMatches(img, idx, var, type)
        THEN SymFound(img, idx)
        ELSE IF Bit0(c) = 1 THEN 0
        ELSE GnuChain(img, chains, hash, idx + 1, var, type)

\* the lookup through DT_GNU_HASH
GnuLookup(img, var, type) ==
    LET hash == GnuHash(var, 1, Word32(0, 5381))
        nbuckets == WordOf(img.gnu_hashtab, 0)
        symbias == WordOf(img.gnu_hashtab, 1)
        nwords == WordOf(img.gnu_hashtab, 2)
        bitmask == 4
        buckets == bitmask + nwords * AddrWords
        chains == buckets + nbuckets - symbias
        idx == WordOf(img.gnu_hashtab, buckets + ModWord(hash, nbuckets))
    IN  IF idx = 0 THEN 0 ELSE GnuChain(img, chains, hash, idx, var, type)

\* the for loop over the chain of the old style table
RECURSIVE HashChain(_, _, _, _, _)
HashChain(img, chains, idx, var, type) ==
    IF idx = 0 THEN 0
    ELSE IF SymMatches(img, idx, var, type) THEN SymFound(img, idx)
    ELSE HashChain(img, chains, WordOf(img.hashtab, chains + idx), var, type)

\* the lookup through DT_HASH
HashLookup(img, var, type) ==
    LET hash == WldElfHash(var, 1, Word32(0, 0))
        nbuckets == WordOf(img.hashtab, 0)
        buckets == 2
        chains == buckets + nbuckets
    IN  HashChain(img, chains, WordOf(img.hashtab, buckets + ModWord(hash, nbuckets)),
                  var, type)

\* find_symbol( map, var, type ); 0 is NULL
FindSymbolIn(img, var, type) ==
    IF ~img.dynamic THEN 0
    ELSE IF ~HasTag(img, "DT_SYMTAB") \/ ~HasTag(img, "DT_STRTAB") THEN 0
    ELSE IF HasTag(img, "DT_GNU_HASH") THEN GnuLookup(img, var, type)
    ELSE IF HasTag(img, "DT_HASH") THEN HashLookup(img, var, type)
    ELSE 0

\* no call of wld_printf or fatal_error
NoMessage == [fmt |-> << >>, args |-> << >>, fatal |-> FALSE]

\* no image, no name
NoLookup == [image |-> << >>, var |-> << >>, type |-> "STT_OBJECT"]

-----------------------------------------------------------------------------
(* wld_start, ELF *)

\* one way the start routine can be entered
Scenario(n, r, spot, sp, vdso, missing, refused, prefer, prctl_ok, main, interp) ==
    [argc |-> n, reserve |-> r, spot |-> spot, sp |-> sp, vdso |-> vdso,
     missing |-> missing, refused |-> refused, prefer |-> prefer, prctl_ok |-> prctl_ok,
     main |-> main, interp |-> interp]

\* the registers are the trampoline's; the start routine leaves them alone
NoRegs == << >>

\* the state in which the i386 trampoline calls wld_start, for scenario s
ElfEntry(s) ==
    /\ pc = "start"
    /\ arch = "i386"
    /\ argc = s.argc
    /\ reserve = s.reserve
    /\ preload_info = InitialInfo
    /\ i = 0
    /\ preloader_start = s.spot[1]
    /\ preloader_end = s.spot[2]
    /\ pargc = s.sp
    /\ av = AddBytes(s.sp, AvIndex(s.argc) * WordBytes("i386"))
    /\ stack = KernelStack("i386", s.argc, KernelAuxv(s.vdso, s.missing))
    /\ top = 0
    /\ avx = AvIndex(s.argc)
    /\ strs = KernelStrs(s.argc)
    /\ comm = << >>
    /\ files = [main |-> s.main, interp |-> s.interp]
    /\ kernel = [refused |-> s.refused, prefer |-> s.prefer, prctl_ok |-> s.prctl_ok,
                 auxv |-> KernelAuxv(s.vdso, s.missing)]
    /\ mem = InitialMem(s.spot[1], s.spot[2], s.sp,
                        AddBytes(s.sp, AvIndex(s.argc) * WordBytes("i386")), s.vdso)
    /\ stderr = << >>
    /\ exit_status = Running
    /\ unmapped = {}
    /\ syscalls = << >>
    /\ lookup = NoLookup
    /\ symbol = 0
    /\ message = NoMessage
    /\ buffer = << >>
    /\ is_unix_thread = FALSE
    /\ main_binary_map = NoLinkMap
    /\ ld_so_map = NoLinkMap
    /\ info_ptr = NoStore
    /\ entry = 0
    /\ new_av = << >>
    /\ delete_av = << >>
    /\ av_count = 0
    /\ builtin_dlls = Range(0, 0)
    /\ regs = NoRegs

\* fatal_error: write the message to fd 2, then wld_exit(1)
FatalError(m) ==
    /\ stderr' = Append(stderr, m)
    /\ exit_status' = 1
    /\ pc' = "exited"

\* "if (*pargc < 2) fatal_error( Usage )", then the scan of the environment;
\* with argc = 0 the kernel leaves argv[0] = NULL, and the "%s" of the usage
\* message reads the byte at address 0, which is not mapped
CheckArgs ==
    /\ pc = "start"
    /\ IF stack[top] < 2
       THEN IF stack[top + 1] = 0
            THEN /\ exit_status' = Killed
                 /\ pc' = "exited"
                 /\ UNCHANGED stderr
            ELSE FatalError(Msg("usage", << >>))
       ELSE /\ pc' = "reserve"
            /\ UNCHANGED << stderr, exit_status >>
    /\ UNCHANGED << inputs, elsewhere, locals, preload_info, i, mem, stack, top, avx, strs, comm,
                    unmapped, syscalls, main_binary_map, ld_so_map, info_ptr, entry >>

\* "if (reserve) preload_reserve( reserve )"
Reserve ==
    /\ pc = "reserve"
    /\ IF ~reserve.set
       THEN /\ pc' = "pass"
            /\ UNCHANGED << preload_info, stderr, exit_status >>
       ELSE LET r == PreloadReserve(reserve.str, preload_info, preloader_start, preloader_end)
            IN  IF r.fatal
                THEN /\ FatalError(Msg("invalid WINEPRELOADRESERVE value", reserve.str))
                     /\ UNCHANGED preload_info
                ELSE /\ preload_info' = r.info
                     /\ stderr' = IF r.warn
                                  THEN Append(stderr, Msg("range overlaps preloader", << >>))
                                  ELSE stderr
                     /\ pc' = "pass"
                     /\ UNCHANGED exit_status
    /\ i' = 0
    /\ UNCHANGED << inputs, elsewhere, locals, mem, stack, top, avx, strs, comm, unmapped, syscalls,
                    main_binary_map, ld_so_map, info_ptr, entry >>

\* "(char *)av >= addr && (char *)pargc <= addr + size"
OverlapsStack(r, argcAt, avAt) ==
    /\ avAt.pg >= r.addr
    /\ \/ argcAt.pg < r.addr + r.size
       \/ argcAt.pg = r.addr + r.size /\ argcAt.off = 0

\* whether the kernel refuses to map range r
Refuses(k, r) == \E p \in k.refused : r.addr <= p /\ p < r.addr + r.size

\* a reservation that leaves the pages readable
ReserveRangeReadable(m, r) == MmapFixed(m, r.addr, r.addr + r.size, {"r"}, "reserve")

\* "wld_mmap( addr, size, PROT_NONE, MAP_FIXED | MAP_PRIVATE | MAP_ANON | MAP_NORESERVE )"
ReserveRange(m, r) == MmapFixed(m, r.addr, r.addr + r.size, PROT_NONE, "reserve")

\* one turn of the reservation loop
PassStep ==
    /\ pc = "pass"
    /\ preload_info[i].size # 0
    /\ LET r == preload_info[i]
       IN  IF OverlapsStack(r, pargc, av)
           THEN /\ preload_info' = RemovePreloadRange(preload_info, i)
                /\ UNCHANGED << i, mem, stderr >>
           ELSE IF Refuses(kernel, r)
           THEN /\ stderr' = IF r.addr >= WarnLimit
                             THEN Append(stderr, Msg("failed to reserve range", r))
                             ELSE stderr
                /\ preload_info' = RemovePreloadRange(preload_info, i)
                /\ UNCHANGED << i, mem >>
           ELSE /\ mem' = ReserveRange(mem, r)
                /\ i' = i + 1
                /\ UNCHANGED << preload_info, stderr >>
    /\ UNCHANGED << inputs, elsewhere, locals, pc, exit_status, stack, top, avx, strs, comm,
                    unmapped, syscalls, main_binary_map, ld_so_map, info_ptr, entry >>

\* the end of the loop, and the executable page below 0x80000000
TopPageStep ==
    /\ pc = "pass"
    /\ preload_info[i].size = 0
    /\ mem' = IF IsAddrReserved(preload_info, TopPage)
              THEN Mprotect(mem, TopPage, TopPage + 1, {"r", "x"})
              ELSE mem
    /\ pc' = "load_main"
    /\ UNCHANGED << inputs, elsewhere, locals, preload_info, i, stderr, exit_status, stack, top,
                    avx, strs, comm, unmapped, syscalls, main_binary_map, ld_so_map, info_ptr, entry >>

\* the load commands of the PT_LOAD headers of f, from header k on
RECURSIVE LoadCmdsOf(_, _)
LoadCmdsOf(ph, k) ==
    IF k > Len(ph) THEN << >>
    ELSE (IF ph[k].p_type = "PT_LOAD" THEN << LoadCmd(ph[k]) >> ELSE << >>)
         \o LoadCmdsOf(ph, k + 1)

\* the length map_so_lib asks for when it maps f as an ET_DYN object
MapLength(f) ==
    LET cmds == LoadCmdsOf(f.ph, 1)
    IN  IF cmds = << >> THEN 0 ELSE cmds[Len(cmds)].allocend - cmds[1].mapstart

\* the places, in the kernel's order, where a mapping of len bytes made
\* without MAP_FIXED fits
FreeSpots(k, m, len) ==
    SelectSeq(k.prefer, LAMBDA b : IsFree(m, PageOf(b), PageOf(PageUp(b + len))))

\* "map_so_lib( argv[1], &main_binary_map )"
LoadMain ==
    /\ pc = "load_main"
    /\ FreeSpots(kernel, mem, MapLength(files.main)) # << >>
    /\ LET base == FreeSpots(kernel, mem, MapLength(files.main))[1]
           r == MapSoLib(files.main, mem, base, preloader_start, preloader_end)
       IN  /\ mem' = r.mem
           /\ syscalls' = syscalls \o MapSoLibCalls("main", files.main, mem, base,
                                                    preloader_start, preloader_end)
           /\ IF r.fatal # ""
              THEN /\ FatalError(Msg(r.fatal, "main"))
                   /\ UNCHANGED main_binary_map
              ELSE /\ main_binary_map' = r.l
                   /\ pc' = "load_interp"
                   /\ UNCHANGED << stderr, exit_status >>
    /\ UNCHANGED << inputs, elsewhere, locals, preload_info, i, stack, top, avx, strs, comm,
                    unmapped, ld_so_map, info_ptr, entry >>

\* the file named by the bytes at l_addr + l_interp: without PT_INTERP these
\* are the first bytes of the image, which name no file
InterpFile(l, fs) == IF l.l_interp = 0 THEN NoFile ELSE fs.interp

\* "map_so_lib( interp, &ld_so_map )"
LoadInterp ==
    /\ pc = "load_interp"
    /\ FreeSpots(kernel, mem, MapLength(InterpFile(main_binary_map, files))) # << >>
    /\ LET f == InterpFile(main_binary_map, files)
           base == FreeSpots(kernel, mem, MapLength(f))[1]
           r == MapSoLib(f, mem, base, preloader_start, preloader_end)
       IN  /\ mem' = r.mem
           /\ syscalls' = syscalls \o MapSoLibCalls("interp", f, mem, base,
                                                    preloader_start, preloader_end)
           /\ IF r.fatal # ""
              THEN /\ FatalError(Msg(r.fatal, "interp"))
                   /\ UNCHANGED ld_so_map
              ELSE /\ ld_so_map' = r.l
                   /\ pc' = "set_auxv"
                   /\ UNCHANGED << stderr, exit_status >>
    /\ UNCHANGED << inputs, elsewhere, locals, preload_info, i, stack, top, avx, strs, comm,
                    unmapped, main_binary_map, info_ptr, entry >>

\* is_in_preload_range
IsInPreloadRange(st, a, info, t) ==
    LET n == AvCount(st, a, 0)
        k == AvFind(st, a, n, t, 0)
    IN  k < n /\ IsAddrReserved(info, PageOf(AvVal(st, a, k)))

\* the SET_NEW_AV lines
NewAv(st, a, main, ld_so, page_size) ==
    << Entry(AT_PHDR, main.l_phdr),
       Entry(AT_PHENT, PhdrSize),
       Entry(AT_PHNUM, main.l_phnum),
       Entry(AT_PAGESZ, page_size),
       Entry(AT_BASE, ld_so.l_addr),
       Entry(AT_FLAGS, GetAuxiliary(st, a, AT_FLAGS, 0)),
       Entry(AT_ENTRY, main.l_entry),
       Entry(AT_UID, GetAuxiliary(st, a, AT_UID, KernelIds.uid)),
       Entry(AT_EUID, GetAuxiliary(st, a, AT_EUID, KernelIds.euid)),
       Entry(AT_GID, GetAuxiliary(st, a, AT_GID, KernelIds.gid)),
       Entry(AT_EGID, GetAuxiliary(st, a, AT_EGID, KernelIds.egid)) >>

\* "delete sysinfo values if addresses conflict"
DeleteAv(st, a, info) ==
    IF \/ IsInPreloadRange(st, a, info, AT_SYSINFO)
       \/ IsInPreloadRange(st, a, info, AT_SYSINFO_EHDR)
    THEN << AT_SYSINFO, AT_SYSINFO_EHDR >> ELSE << >>

\* a lookup that returns the symbol's value as it stands in the file
FindSymbolUnbiased(l, f) == f.sym

\* the address find_symbol returns for wine_main_preload_info, 0 for NULL
FindSymbol(l, f) == IF f.sym = 0 THEN 0 ELSE l.l_addr + f.sym

\* the rest of wld_start: the pointer to the list is stored in the main
\* binary, the first argument is dropped, the auxv is rewritten and the
\* entry point of the interpreter is returned
HandOff ==
    /\ pc = "set_auxv"
    /\ LET sym == FindSymbol(main_binary_map, files.main)
           page_size == GetAuxiliary(stack, avx, AT_PAGESZ, PageBytes)
           new_av_ == NewAv(stack, avx, main_binary_map, ld_so_map, page_size)
           delete_av_ == DeleteAv(stack, avx, preload_info)
           named == SetProcessName(stack, strs, stack[0], kernel.prctl_ok)
           shifted == [named.st EXCEPT ![1] = named.st[0] - 1]
           r == SetAuxiliaryValues(shifted, avx, new_av_, delete_av_, 1, pargc.off,
                                   WordBytes(arch))
       IN  /\ info_ptr' = IF sym = 0 THEN NoStore
                           ELSE [at |-> sym, val |-> PreloadInfoAt(preloader_start)]
           /\ stderr' = IF sym = 0
                        THEN Append(stderr, Msg("wine_main_preload_info not found", << >>))
                        ELSE stderr
           /\ strs' = named.strs
           /\ comm' = named.comm
           /\ stack' = r.st
           /\ top' = r.top
           /\ avx' = r.av
           /\ new_av' = new_av_
           /\ delete_av' = delete_av_
           /\ av_count' = r.n
    /\ entry' = ld_so_map.l_entry
    /\ pc' = "handoff"
    /\ UNCHANGED << inputs, elsewhere, preload_info, i, mem, exit_status, unmapped, syscalls,
                    main_binary_map, ld_so_map >>

Next == CheckArgs \/ Reserve \/ PassStep \/ TopPageStep \/ LoadMain \/ LoadInterp \/ HandOff

-----------------------------------------------------------------------------
(* The ways the ELF start routine is entered *)

Chars == {"0", "1", "-", "g"}

\* every string over Chars of length at most MaxStrLen
ShortStrings == UNION {[1 .. n -> Chars] : n \in 0 .. MaxStrLen}

\* strings long enough to name whole pages
LongStrings ==
    { << "1","0","0","0","0","-","2","0","0","0","0" >>,                          \* 10000-20000
      << "f","f","f","-","1","1","1","0","0","1" >>,                              \* fff-111001
      << "1","0","0","0","0","0","-","6","9","0","0","0","0","0","0" >>,          \* 100000-69000000
      << "4","0","0","0","0","0","-","6","8","0","0","0","0","0","0" >>,          \* 400000-68000000
      << "6","8","0","0","0","0","0","0","-","6","8","0","0","1","0","0","1" >>,  \* 68000000-68001001
      << "6","7","F","F","F","f","f","f","-","6","8","0","0","2","0","0","0" >>,  \* 67FFFfff-68002000
      << "7","f","0","0","0","0","0","0","-","7","f","8","0","0","0","0","0" >>,  \* 7f000000-7f800000
      << "7","e","0","0","0","0","0","0","-","8","3","0","0","0","0","0","0" >>,  \* 7e000000-83000000
      << "7","0","0","0","0","0","0","0","-","7","d","0","0","0","0","0","0" >>,  \* 70000000-7d000000
      << "7","c","4","0","1","0","0","0","-","7","c","4","0","2","0","0","0" >>,  \* 7c401000-7c402000
      << "7","f","f","f","f","0","0","0","-","8","0","0","0","0","0","0","0" >>,  \* 7ffff000-80000000
      << "7","d","4","0","a","0","0","0","-","7","d","4","0","b","0","0","0" >>,  \* 7d40a000-7d40b000
      << "7","a","8","0","0","0","0","0","-","7","b","0","0","0","0","0","0" >>,  \* 7a800000-7b000000
      << "6","9","0","0","0","0","0","0","-","6","8","0","0","0","0","0","0" >>,  \* 69000000-68000000
      << "9","0","0","0","0","0","0","0","-","f","f","f","f","f","0","0","1" >>,  \* 90000000-fffff001
      << "1","6","9","0","0","0","0","0","0","-","6","a","0","0","0","0","0","0" >>, \* 169000000-6a000000
      << "6","9","0","0","0","0","0","0" >>,                                      \* 69000000
      << "6","9","0","0","0","0","0","0","-" >>,                                  \* 69000000-
      << "-","6","9","0","0","0","0","0","0" >>,                                  \* -69000000
      << "6","9","0","0","0","0","0","0","-","6","a","0","0","0","0","0","0","-" >>, \* ...-...-
      << "6","9","0","0","0","0","0","0","-","6","a","0","0","0","z","0","0" >>,  \* 69000000-6a000z00
      << "0","x","6","9","0","0","0","0","0" >>,                                  \* 0x6900000
      << "1","0","0","0","0","0","0","0","0" >>,                                  \* 100000000
      << "0" >>,                                                                  \* 0
      << "z","z","z" >> }

\* the strings that name a range clear of the loader
FewStrings ==
    { << "7","a","8","0","0","0","0","0","-","7","b","0","0","0","0","0","0" >>,
      << "7","f","0","0","0","0","0","0","-","7","f","8","0","0","0","0","0" >>,
      << "1","0","0","0","0","-","2","0","0","0","0" >> }

\* where the loader is linked: [start page, end page]
PreloaderSpots == { << \h7c400, \h7c404 >>, << \h7d400, \h7d40a >> }

\* where the kernel put argc: the top of a 3 GiB user space, a place inside
\* the top-down range, and the first byte after it
StackSpots == { [pg |-> \hbffff, off |-> \hd50],
                [pg |-> \h7fffe, off |-> \hf80],
                [pg |-> \h82000, off |-> 0] }
HighStack == [pg |-> \hbffff, off |-> \hd50]

\* the pages at which the kernel refuses a MAP_FIXED mapping: none, what
\* vm.mmap_min_addr protects, and a page of the ranges above it
RefusedSets == { {}, {0}, {0, 1}, {0, 1, \h7f800}, {\h7a900} }

\* the addresses the kernel tries for a mapping without MAP_FIXED, in order
Prefers == { << \h68000000, \h6c000000, \h7e000000 >>,
             << \h7e000000, \h6c000000, \h68000000 >> }
LowFirst == << \h68000000, \h6c000000, \h7e000000 >>

\* the vDSO: none, inside the top-down range, in free space
Vdsos == { 0, \h7f7f0000, \h6fff0000 }

\* the tags the kernel's auxv may lack
MissingSets ==
    { {}, {AT_FLAGS}, {AT_BASE}, {AT_PHDR, AT_PHNUM}, {AT_PAGESZ}, {AT_ENTRY, AT_PAGESZ},
      {AT_UID, AT_EUID, AT_GID, AT_EGID},
      {AT_PHDR, AT_PHENT, AT_PHNUM, AT_PAGESZ, AT_BASE, AT_FLAGS, AT_ENTRY} }

Envs(ss) == {NoEnv} \cup {Env(s) : s \in ss}

\* every reservation string against every place of the loader and the stack;
\* a few strings against every kernel and every main binary; wrong calls
Scenarios ==
    { Scenario(2, r, spot, sp, 0, {}, {0, 1}, LowFirst, TRUE, MainPie, InterpDyn) :
        r \in Envs(LongStrings), spot \in PreloaderSpots, sp \in StackSpots }
    \cup
    { Scenario(2, r, << \h7c400, \h7c404 >>, HighStack, v, {}, x, p, TRUE, m, InterpDyn) :
        r \in Envs(FewStrings), v \in {0, \h7f7f0000}, x \in RefusedSets, p \in Prefers,
        m \in MainFiles }
    \cup
    { Scenario(n, NoEnv, << \h7c400, \h7c404 >>, HighStack, 0, {}, {0, 1}, LowFirst, TRUE,
               MainPie, f) : n \in {0, 1, 3}, f \in InterpFiles \cup {NotElf} }

Init == \E s \in Scenarios : ElfEntry(s)

Spec == Init /\ [][Next]_vars

\* every short and every long reservation string, on one machine
ParseScenarios ==
    { Scenario(2, Env(s), << \h7c400, \h7c404 >>, HighStack, 0, {}, {0, 1}, LowFirst, TRUE,
               MainPie, InterpDyn) : s \in ShortStrings \cup LongStrings }

InitParse == \E s \in ParseScenarios : ElfEntry(s)

SpecParse == InitParse /\ [][Next]_vars

\* every auxv the kernel may supply against the main binaries that load
HandoffScenarios ==
    { Scenario(n, NoEnv, << \h7c400, \h7c404 >>, sp, v, ms, {0, 1}, LowFirst, ok, m, InterpDyn) :
        n \in {2, 3}, sp \in {HighStack, [pg |-> \h7fffe, off |-> \hf80]}, v \in Vdsos,
        ms \in MissingSets, ok \in BOOLEAN,
        m \in {MainPie, MainExec(\h7bf00000), MainExec(\h08048000), MainPlain} }
    \cup
    { Scenario(1, NoEnv, << \h7c400, \h7c404 >>, HighStack, 0, {}, {0, 1}, LowFirst, TRUE,
               MainPie, InterpDyn) }
    \cup
    { Scenario(2, NoEnv, << \h7c400, \h7c404 >>, sp, v, ms, x, LowFirst, TRUE, MainPie,
               InterpDyn) :
        sp \in {HighStack, [pg |-> \h7fffe, off |-> \hf80]}, v \in Vdsos \ {0},
        ms \in {{}, {AT_SYSINFO}, {AT_SYSINFO_EHDR}, {AT_SYSINFO, AT_PAGESZ}},
        x \in {{0, 1}, {0, 1, \h7f800}} }

InitHandoff == \E s \in HandoffScenarios : ElfEntry(s)

SpecHandoff == InitHandoff /\ [][Next]_vars

\* the shapes of a data segment at vaddr v: bss that overflows into whole
\* pages, a read-only segment with bss inside its last page, file data
\* that ends on a page boundary, bss only, a read-only segment with
\* overflowing bss, and no bss at all
DataShapes(v) ==
    { Phdr("PT_LOAD", {"r", "w"}, \h1f00, v + \h2f00, \h120, \h2200, \h1000),
      Phdr("PT_LOAD", {"r"}, \h1f00, v + \h2f00, \h120, \h200, \h1000),
      Phdr("PT_LOAD", {"r", "w"}, \h2000, v + \h3000, \h1000, \h3000, \h1000),
      Phdr("PT_LOAD", {"r", "w"}, \h2000, v + \h3000, 0, \h1800, \h1000),
      Phdr("PT_LOAD", {"r", "x"}, \h1f00, v + \h2f00, \h120, \h2200, \h1000),
      Phdr("PT_LOAD", {"r", "w"}, \h1f00, v + \h2f00, \h120, \h120, \h1000) }

\* a main binary with a text segment, the data segment d and PT_INTERP; it
\* defines wine_main_preload_info when its data segment is writable
Image(type, v, d) ==
    ElfFile(type, 52, v + \h400,
            << Phdr("PT_INTERP", {"r"}, \h114, v + \h114, 19, 19, 1),
               Phdr("PT_LOAD", {"r", "x"}, 0, v, \h1800, \h1800, \h1000), d >>,
            IF "w" \in d.p_flags THEN v + \h3010 ELSE 0)

\* a position-independent main binary with three PT_LOAD segments
ThreeLoads ==
    ElfFile("ET_DYN", 52, \h400,
            << Phdr("PT_INTERP", {"r"}, \h114, \h114, 19, 19, 1),
               Phdr("PT_LOAD", {"r", "x"}, 0, 0, \h1800, \h1800, \h1000),
               Phdr("PT_LOAD", {"r"}, \h2000, \h2000, \h800, \h800, \h1000),
               Phdr("PT_LOAD", {"r", "w"}, \h2f00, \h3f00, \h120, \h2200, \h1000) >>,
            \h4010)

\* fixed-address images around the loader at 0x7c400000: one ending below
\* it, one reaching into it, one starting inside it, one starting at its end
NearLoader == { MainExec(v) : v \in {\h7c3fa000, \h7c3fe000, \h7c402000, \h7c404000} }

\* what the 32 bytes below buf[] may hold when they are read as a program
\* header: nothing the walk acts on, or a load command it refuses
BelowBuf ==
    { Phdr("PT_NULL", {}, 0, 0, 0, 0, 0),
      Phdr("PT_LOAD", {"r"}, 0, \h100, \h100, \h100, \h10) }

\* a file whose e_phoff is 0xffffffe0 and whose e_phnum is 4: the table
\* starts 32 bytes below buf[] and ends at buf + 96.  The second header is
\* the start of the ELF header, whose p_type is the magic number; the third
\* is made of e_shoff = 1 (PT_LOAD), e_flags = 0, e_ehsize = 0x2000 and the
\* bytes after them, the fourth is bytes 64 to 95 of the file
WrappedTable(g) ==
    ElfFile("ET_DYN", 0 - 32, \h2400,
            << g,
               Phdr("0x464c457f", {}, 0, 0, 0, 0, 0),
               Phdr("PT_LOAD", {"r", "x"}, 0, \h2000, \h1000, \h1000, \h1000),
               Phdr("PT_INTERP", {"r"}, \h114, \h2114, 19, 19, 1) >>, 0)

\* files the header checks are made for: a short file, a wrong magic number,
\* a wrong machine, 17 program headers, a table that ends after the buffer,
\* a table whose offset wraps, a load command aligned to half a page, one
\* whose address and offset differ within the page, no load command
BadFiles ==
    { [MainPie EXCEPT !.length = \h7ff],
      [MainPie EXCEPT !.magic = FALSE],
      [MainPie EXCEPT !.machine = FALSE],
      ElfFile("ET_DYN", 52, \h400,
              [k \in 1 .. MaxLoadCmds + 1 |->
                 IF k = 1 THEN Phdr("PT_LOAD", {"r", "x"}, 0, 0, \h1800, \h1800, \h1000)
                 ELSE Phdr("PT_NULL", {}, 0, 0, 0, 0, 0)], 0),
      [MainPie EXCEPT !.e_phoff = \h7f0],
      Image("ET_DYN", 0, Phdr("PT_LOAD", {"r", "w"}, \h1f00, \h2f00, \h120, \h2200, \h800)),
      Image("ET_DYN", 0, Phdr("PT_LOAD", {"r", "w"}, \h1f00, \h2e00, \h120, \h2200, \h1000)),
      ElfFile("ET_DYN", 52, \h400,
              << Phdr("PT_INTERP", {"r"}, \h114, \h114, 19, 19, 1),
                 Phdr("PT_NOTE", {"r"}, \h200, \h200, 32, 32, 4) >>, 0) }
    \cup { WrappedTable(g) : g \in BelowBuf }

\* the images argv[1] names
MapFiles ==
    { Image("ET_DYN", 0, d) : d \in DataShapes(0) }
    \cup { Image("ET_EXEC", \h7bf00000, d) : d \in DataShapes(\h7bf00000) }
    \cup { ThreeLoads, MainPie, MainStatic }
    \cup NearLoader

\* every image against the places of the loader and the kernel's orders
MapScenarios ==
    { Scenario(2, NoEnv, spot, HighStack, 0, {}, {0, 1}, p, TRUE, m, f) :
        spot \in PreloaderSpots, p \in Prefers, m \in MapFiles \cup BadFiles,
        f \in {InterpDyn} }
    \cup
    { Scenario(2, NoEnv, << \h7c400, \h7c404 >>, HighStack, 0, {}, {0, 1}, LowFirst, TRUE,
               MainPie, f) : f \in BadFiles }

InitMap == \E s \in MapScenarios : ElfEntry(s)

SpecMap == InitMap /\ [][Next]_vars

-----------------------------------------------------------------------------
(* wld_start, Mach-O (the i386 list) *)

\* struct wine_preload_info builtin_dlls = { (void *)0x7a000000, 0x02000000 }
BuiltinDlls == Range(\h7a000, \h02000)

\* where the kernel puts a mapping when it does not honour the hint
MachSpots == { \h90000, \h6a000 }

\* the kernel's answers to one call of map_region: what the mmap with a hint
\* does, and whether the mmap with MAP_FIXED succeeds
Answers == [hint : {"honoured", "elsewhere", "failed"}, spot : MachSpots, fixed_ok : BOOLEAN]

\* the answers the kernel can give for range info in address space m
Feasible(info, m) ==
    { a \in Answers :
        /\ a.hint = "honoured" => IsFree(m, info.addr, info.addr + info.size)
        /\ a.hint = "elsewhere" => /\ IsFree(m, a.spot, a.spot + info.size)
                                   /\ a.spot # info.addr }

\* mincore: the pages a process has touched are resident; a reservation and
\* a mapping nobody has read yet are not
Resident(r) == r.kind \in {"loader", "stack", "dyld"}

\* is_region_empty: 0 when mincore reports a resident page in the range
IsRegionEmpty(info, m) ==
    ~ \E r \in m : /\ r.lo < info.addr + info.size
                   /\ info.addr < r.hi
                   /\ Resident(r)

\* map_region( info ) under the answers a: whether it returned 1, the address
\* space, the ranges it unmapped, and whether it printed the warning
MapRegion(info, m, a) ==
    LET lo == info.addr
        hi == info.addr + info.size
        fixed == [ok |-> TRUE, mem |-> MmapFixed(m, lo, hi, PROT_NONE, "reserve"),
                  unmapped |-> {}]
        wrong == IF a.hint = "elsewhere" THEN {Range(a.spot, info.size)} ELSE {}
    IN  IF info.addr = 0
        THEN IF a.fixed_ok THEN fixed ELSE [ok |-> FALSE, mem |-> m, unmapped |-> {}]
        ELSE IF a.hint = "honoured" THEN fixed
        ELSE IF ~IsRegionEmpty(info, m) THEN [ok |-> FALSE, mem |-> m, unmapped |-> wrong]
        ELSE IF a.fixed_ok THEN [fixed EXCEPT !.unmapped = wrong]
        ELSE [ok |-> FALSE, mem |-> m, unmapped |-> wrong]

\* a call map_region makes and what the kernel returned: the address for
\* mmap (-1 for MAP_FAILED), 0 for munmap, the verdict of is_region_empty
\* for the mincore probe
KernelCall(op, addr, len, how, ret) ==
    [file |-> "", op |-> op, addr |-> addr, len |-> len, prot |-> PROT_NONE, how |-> how,
     ret |-> ret]

\* calls that map with MAP_FIXED as soon as the hint was not honoured
MapRegionCallsUnprobed(info, m, a) ==
    IF info.addr = 0
    THEN << KernelCall("mmap", 0, info.size, "anon_fixed", IF a.fixed_ok THEN 0 ELSE -1) >>
    ELSE IF a.hint = "honoured"
    THEN << KernelCall("mmap", info.addr, info.size, "anon", info.addr) >>
    ELSE << KernelCall("mmap", info.addr, info.size, "anon",
                       IF a.hint = "elsewhere" THEN a.spot ELSE -1) >>
         \o (IF a.hint = "elsewhere"
             THEN << KernelCall("munmap", a.spot, info.size, "", 0) >> ELSE << >>)
         \o << KernelCall("mmap", info.addr, info.size, "anon_fixed",
                          IF a.fixed_ok THEN info.addr ELSE -1) >>

\* the calls of map_region( info ) under the answers a, in order
MapRegionCalls(info, m, a) ==
    IF info.addr = 0
    THEN << KernelCall("mmap", 0, info.size, "anon_fixed", IF a.fixed_ok THEN 0 ELSE -1) >>
    ELSE IF a.hint = "honoured"
    THEN << KernelCall("mmap", info.addr, info.size, "anon", info.addr) >>
    ELSE << KernelCall("mmap", info.addr, info.size, "anon",
                       IF a.hint = "elsewhere" THEN a.spot ELSE -1) >>
         \o (IF a.hint = "elsewhere"
             THEN << KernelCall("munmap", a.spot, info.size, "", 0) >> ELSE << >>)
         \o << KernelCall("mincore", info.addr, info.size, "",
                          IF IsRegionEmpty(info, m) THEN 1 ELSE 0) >>
         \o (IF IsRegionEmpty(info, m)
             THEN << KernelCall("mmap", info.addr, info.size, "anon_fixed",
                                IF a.fixed_ok THEN info.addr ELSE -1) >>
             ELSE << >>)

\* a Mach-O header: where dyld loaded it, and its load commands
MachHeader(cmds) == [at |-> \h7c500000, slide |-> \h1000, cmds |-> cmds]

MachFiles ==
    { MachHeader(<< [cmd |-> "LC_SEGMENT", val |-> 0], [cmd |-> "LC_MAIN", val |-> \h1f40] >>),
      MachHeader(<< [cmd |-> "LC_UNIXTHREAD", val |-> \h2f00] >>),
      MachHeader(<< [cmd |-> "LC_UNIXTHREAD", val |-> \h2f00],
                    [cmd |-> "LC_MAIN", val |-> \h1f40] >>),
      MachHeader(<< [cmd |-> "LC_MAIN", val |-> \h1f40],
                    [cmd |-> "LC_UNIXTHREAD", val |-> \h2f00] >>),
      MachHeader(<< [cmd |-> "LC_SEGMENT", val |-> 0] >>) }

\* a search that takes the first of the two commands it meets
GetEntryPointInOrder(mh) ==
    LET both == SelectSeq(mh.cmds, LAMBDA c : c.cmd \in {"LC_MAIN", "LC_UNIXTHREAD"})
    IN  IF both = << >> THEN [entry |-> 0, unix_thread |-> FALSE]
        ELSE IF both[1].cmd = "LC_MAIN"
        THEN [entry |-> mh.at + both[1].val, unix_thread |-> FALSE]
        ELSE [entry |-> both[1].val + mh.slide, unix_thread |-> TRUE]

\* get_entry_point: LC_MAIN first, then LC_UNIXTHREAD; 0 for NULL
GetEntryPoint(mh) ==
    LET mains == SelectSeq(mh.cmds, LAMBDA c : c.cmd = "LC_MAIN")
        threads == SelectSeq(mh.cmds, LAMBDA c : c.cmd = "LC_UNIXTHREAD")
    IN  IF mains # << >> THEN [entry |-> mh.at + mains[1].val, unix_thread |-> FALSE]
        ELSE IF threads # << >>
             THEN [entry |-> threads[1].val + mh.slide, unix_thread |-> TRUE]
        ELSE [entry |-> 0, unix_thread |-> FALSE]

\* the mappings that exist besides the loader and the stack when the loader
\* starts: none, a library in use inside the placeholder window, and a file
\* mapped but not yet read inside the top-down range
ForeignSets ==
    { {},
      {Region(\h7a100, \h7a180, {"r", "x"}, "dyld")},
      {Region(\h7f100, \h7f200, {"r"}, "file")} }

\* the strings the Mach-O start routine is run with
MachStrings ==
    { << "7","a","8","0","0","0","0","0","-","7","b","0","0","0","0","0","0" >>,  \* 7a800000-7b000000
      << "6","9","0","0","0","0","0","0","-","6","a","0","0","0","0","0","0" >>,  \* 69000000-6a000000
      << "7","9","0","0","0","0","0","0","-","7","d","0","0","0","0","0","0" >>,  \* 79000000-7d000000
      << "z","z","z" >> }

MachEntry(n, r, foreign, f) ==
    /\ pc = "m_start"
    /\ arch = "macho"
    /\ argc = n
    /\ reserve = r
    /\ preload_info = InitialInfo
    /\ i = 0
    /\ preloader_start = \h7c400
    /\ preloader_end = \h7c404
    /\ pargc = HighStack
    /\ av = AddBytes(HighStack, AvIndex(n) * WordBytes("macho"))
    /\ stack = KernelStack("macho", n, << >>)
    /\ top = 0
    /\ avx = AvIndex(n)
    /\ strs = KernelStrs(n)
    /\ comm = << >>
    /\ files = [main |-> f, interp |-> NoFile]
    /\ kernel = [refused |-> {}, prefer |-> << >>, prctl_ok |-> FALSE, auxv |-> << >>]
    /\ mem = InitialMem(\h7c400, \h7c404, HighStack, HighStack, 0) \cup foreign
    /\ stderr = << >>
    /\ exit_status = Running
    /\ unmapped = {}
    /\ syscalls = << >>
    /\ lookup = NoLookup
    /\ symbol = 0
    /\ message = NoMessage
    /\ buffer = << >>
    /\ is_unix_thread = FALSE
    /\ main_binary_map = NoLinkMap
    /\ ld_so_map = NoLinkMap
    /\ info_ptr = NoStore
    /\ entry = 0
    /\ new_av = << >>
    /\ delete_av = << >>
    /\ av_count = 0
    /\ builtin_dlls = BuiltinDlls
    /\ regs = NoRegs

InitMach ==
    \E n \in {1, 2}, r \in Envs(MachStrings), foreign \in ForeignSets, f \in MachFiles :
        MachEntry(n, r, foreign, f)

\* what the Mach-O start routine never touches
machIdle == << inputs, regs, locals, stack, top, avx, strs, comm, main_binary_map, ld_so_map,
              symbol, buffer >>

\* "if (*pargc < 2) fatal_error( Usage )", the scan of the environment, and
\* "if (reserve) preload_reserve( reserve )"
MachReserve ==
    /\ pc = "m_start"
    /\ IF stack[top] < 2
       THEN /\ FatalError(Msg("usage", << >>))
            /\ UNCHANGED preload_info
       ELSE IF ~reserve.set
       THEN /\ pc' = "m_pass"
            /\ UNCHANGED << preload_info, stderr, exit_status >>
       ELSE LET r == PreloadReserveApple(reserve.str, preload_info)
            IN  IF r.fatal
                THEN /\ FatalError(Msg("invalid WINEPRELOADRESERVE value", reserve.str))
                     /\ UNCHANGED preload_info
                ELSE /\ preload_info' = r.info
                     /\ pc' = "m_pass"
                     /\ UNCHANGED << stderr, exit_status >>
    /\ UNCHANGED << machIdle, i, mem, unmapped, syscalls, info_ptr, entry, builtin_dlls,
                    is_unix_thread >>

\* one turn of "for (i = 0; preload_info[i].size; i++) if (!map_region(...))"
MachPassStep ==
    /\ pc = "m_pass"
    /\ preload_info[i].size # 0
    /\ \E a \in Feasible(preload_info[i], mem) :
          LET r == MapRegion(preload_info[i], mem, a)
          IN  /\ mem' = r.mem
              /\ unmapped' = IF r.unmapped = {} THEN unmapped ELSE r.unmapped
              /\ syscalls' = MapRegionCalls(preload_info[i], mem, a)
              /\ IF r.ok
                 THEN /\ i' = i + 1
                      /\ UNCHANGED << preload_info, stderr >>
                 ELSE /\ preload_info' = RemovePreloadRange(preload_info, i)
                      /\ stderr' = Append(stderr, Msg("failed to reserve range", preload_info[i]))
                      /\ UNCHANGED i
    /\ UNCHANGED << machIdle, pc, exit_status, info_ptr, entry, builtin_dlls, is_unix_thread >>

\* "if (!map_region( &builtin_dlls )) builtin_dlls.size = 0", the lookup of
\* the dyld functions and the dlopen of the main binary
MachLoad ==
    /\ pc = "m_pass"
    /\ preload_info[i].size = 0
    /\ \E a \in Feasible(builtin_dlls, mem), loaded \in BOOLEAN :
          LET r == MapRegion(builtin_dlls, mem, a)
              warned == IF r.ok THEN stderr
                        ELSE Append(stderr, Msg("failed to reserve range", builtin_dlls))
          IN  /\ syscalls' = MapRegionCalls(builtin_dlls, mem, a)
              /\ mem' = IF r.ok
                        THEN (r.mem \ {Region(BuiltinDlls.addr,
                                              BuiltinDlls.addr + BuiltinDlls.size,
                                              PROT_NONE, "reserve")})
                             \cup {Region(BuiltinDlls.addr, BuiltinDlls.addr + BuiltinDlls.size,
                                          PROT_NONE, "placeholder")}
                        ELSE r.mem
              /\ unmapped' = IF r.unmapped = {} THEN unmapped ELSE r.unmapped
              /\ builtin_dlls' = IF r.ok THEN builtin_dlls ELSE [builtin_dlls EXCEPT !.size = 0]
              /\ IF loaded
                 THEN /\ pc' = "m_loaded"
                      /\ stderr' = warned
                      /\ UNCHANGED exit_status
                 ELSE /\ stderr' = Append(warned, Msg("could not load binary", << >>))
                      /\ exit_status' = 1
                      /\ pc' = "exited"
    /\ UNCHANGED << machIdle, preload_info, i, info_ptr, entry, is_unix_thread >>

\* "if (builtin_dlls.size) wld_munmap( builtin_dlls.addr, builtin_dlls.size )",
\* the store of the pointer to the list, and the search for the entry point
MachFinish ==
    /\ pc = "m_loaded"
    /\ mem' = IF builtin_dlls.size # 0
              THEN Munmap(mem, builtin_dlls.addr, builtin_dlls.addr + builtin_dlls.size)
              ELSE mem
    /\ unmapped' = IF builtin_dlls.size # 0 THEN {builtin_dlls} ELSE unmapped
    /\ \E found \in BOOLEAN, mh \in BOOLEAN :
          LET said == IF found THEN stderr
                      ELSE Append(stderr, Msg("wine_main_preload_info not found", << >>))
              e == GetEntryPoint(files.main)
          IN  /\ info_ptr' = IF found
                              THEN [at |-> files.main.at + \h3010,
                                    val |-> PreloadInfoAt(preloader_start)]
                              ELSE NoStore
              /\ IF ~mh
                 THEN /\ stderr' = Append(said, Msg("could not find mach header", << >>))
                      /\ exit_status' = 1
                      /\ pc' = "exited"
                      /\ UNCHANGED << entry, is_unix_thread >>
                 ELSE IF e.entry = 0
                 THEN /\ stderr' = Append(said, Msg("could not find entry point", << >>))
                      /\ exit_status' = 1
                      /\ pc' = "exited"
                      /\ UNCHANGED << entry, is_unix_thread >>
                 ELSE /\ stderr' = said
                      /\ entry' = e.entry
                      /\ is_unix_thread' = e.unix_thread
                      /\ pc' = "handoff"
                      /\ UNCHANGED exit_status
    /\ UNCHANGED << machIdle, preload_info, i, syscalls, builtin_dlls >>

NextMach == MachReserve \/ MachPassStep \/ MachLoad \/ MachFinish

SpecMach == InitMach /\ [][NextMach]_vars

-----------------------------------------------------------------------------
(* set_auxiliary_values on its own, for both word sizes *)

\* the byte offsets within 16 at which the incoming stack may lie
Offsets(a) == {o \in {0, 4, 8, 12} : o % WordBytes(a) = 0}

\* a main binary and an interpreter as map_so_lib leaves them
SomeMain == [NoLinkMap EXCEPT !.l_phdr = \h7bf00034, !.l_phnum = 4, !.l_entry = \h7bf00400]
SomeLdSo == [NoLinkMap EXCEPT !.l_addr = \h68000000, !.l_entry = \h68000100]

\* the state in which set_auxiliary_values is called
AuxvEntry(a, o, vdso, missing, del, all) ==
    /\ pc = "auxv_call"
    /\ arch = a
    /\ argc = 2
    /\ reserve = NoEnv
    /\ preload_info = InitialInfo
    /\ i = 0
    /\ preloader_start = \h7c400
    /\ preloader_end = \h7c404
    /\ pargc = [pg |-> \h7ffe0, off |-> \hf80 + o]
    /\ av = AddBytes([pg |-> \h7ffe0, off |-> \hf80 + o], AvIndex(2) * WordBytes(a))
    /\ stack = KernelStack(a, 2, KernelAuxv(vdso, missing))
    /\ top = 1
    /\ avx = AvIndex(2)
    /\ strs = KernelStrs(2)
    /\ comm = << >>
    /\ files = [main |-> MainPie, interp |-> InterpDyn]
    /\ kernel = [refused |-> {}, prefer |-> << >>, prctl_ok |-> FALSE,
                 auxv |-> KernelAuxv(vdso, missing)]
    /\ mem = InitialMem(\h7c400, \h7c404, [pg |-> \h7ffe0, off |-> \hf80 + o],
                        [pg |-> \h7ffe0, off |-> \hf80 + o], vdso)
    /\ stderr = << >>
    /\ exit_status = Running
    /\ unmapped = {}
    /\ syscalls = << >>
    /\ lookup = NoLookup
    /\ symbol = 0
    /\ message = NoMessage
    /\ buffer = << >>
    /\ is_unix_thread = FALSE
    /\ main_binary_map = SomeMain
    /\ ld_so_map = SomeLdSo
    /\ info_ptr = NoStore
    /\ entry = 0
    /\ new_av = IF all
                THEN NewAv(KernelStack(a, 2, KernelAuxv(vdso, missing)), AvIndex(2),
                           SomeMain, SomeLdSo, PageBytes)
                ELSE << Entry(AT_BASE, SomeLdSo.l_addr) >>
    /\ delete_av = del
    /\ av_count = 0
    /\ builtin_dlls = Range(0, 0)
    /\ regs = NoRegs

\* the tags wld_start sets
MustSet ==
    {AT_PHDR, AT_PHENT, AT_PHNUM, AT_PAGESZ, AT_BASE, AT_FLAGS, AT_ENTRY, AT_UID, AT_EUID,
     AT_GID, AT_EGID}

\* kernels that leave out up to all of them
ManyMissing ==
    MissingSets \cup {MustSet \ {AT_PHDR, AT_PHENT, AT_PHNUM}, MustSet \ {AT_PHDR, AT_PHENT},
                      MustSet}

InitAuxv ==
    \E a \in {"i386", "x86_64"}, vdso \in {0, \h7f7f0000}, missing \in ManyMissing,
       del \in { << >>, << AT_SYSINFO, AT_SYSINFO_EHDR >>, << AT_HWCAP >> }, all \in BOOLEAN :
       \E o \in Offsets(a) : AuxvEntry(a, o, vdso, missing, del, all)

\* the call "set_auxiliary_values( av, new_av, delete_av, stack )".  A block
\* moved to below the room the trampoline left is stored over the saved stack
\* pointer and the frame of wld_start: the call may return or the process be
\* killed.
AuxvCall ==
    /\ pc = "auxv_call"
    /\ LET r == SetAuxiliaryValues(stack, avx, new_av, delete_av, top, pargc.off,
                                   WordBytes(arch))
       IN  /\ stack' = r.st
           /\ top' = r.top
           /\ avx' = r.av
           /\ av_count' = r.n
           /\ \E killed \in BOOLEAN :
                 /\ killed => r.top < 0 - ScratchWords(arch)
                 /\ exit_status' = IF killed THEN Killed ELSE exit_status
                 /\ pc' = IF killed THEN "exited" ELSE "auxv_done"
    /\ UNCHANGED << inputs, elsewhere, new_av, delete_av, preload_info, i, mem, strs, comm,
                    stderr, unmapped, syscalls, main_binary_map, ld_so_map, info_ptr,
                    entry >>

NextAuxv == AuxvCall

SpecAuxv == InitAuxv /\ [][NextAuxv]_vars

-----------------------------------------------------------------------------
(* find_symbol on its own, on images as a link editor writes them *)

\* the name wld_start looks for, and other names
PreloadInfoName ==
    << "w", "i", "n", "e", "_", "m", "a", "i", "n", "_", "p", "r", "e", "l", "o", "a", "d",
       "_", "i", "n", "f", "o" >>
MainName == << "m", "a", "i", "n" >>
EndName == << "e", "n", "d" >>
DlopenName == << "d", "l", "o", "p", "e", "n" >>
AbsentName == << "n", "o" >>

\* symtab[0]
NullSym == Sym(<< >>, "STB_LOCAL", "STT_NOTYPE", 0, 0)

\* the symbols of an image besides the one looked for: a function, an imported
\* function and a variable
OtherSyms ==
    << Sym(MainName, "STB_GLOBAL", "STT_FUNC", 1, \h1200),
       Sym(DlopenName, "STB_GLOBAL", "STT_FUNC", 0, 0),
       Sym(EndName, "STB_GLOBAL", "STT_OBJECT", 1, \h4000) >>

\* the ways an image may have a symbol wine_main_preload_info: exported
\* variable, function, weak variable, and variable imported from a library
InfoSyms ==
    { Sym(PreloadInfoName, "STB_GLOBAL", "STT_OBJECT", 1, \h3010),
      Sym(PreloadInfoName, "STB_GLOBAL", "STT_FUNC", 1, \h1300),
      Sym(PreloadInfoName, "STB_WEAK", "STT_OBJECT", 1, \h3010),
      Sym(PreloadInfoName, "STB_GLOBAL", "STT_OBJECT", 0, 0) }

SymLists ==
    { << >>, OtherSyms }
    \cup { << y >> : y \in InfoSyms }
    \cup { << y >> \o OtherSyms : y \in InfoSyms }
    \cup { OtherSyms \o << y >> : y \in InfoSyms }

\* the defined symbols of syms that fall into buckets b .. nb - 1 of a new
\* style table, bucket by bucket
RECURSIVE ByBucket(_, _, _)
ByBucket(syms, nb, b) ==
    IF b = nb THEN << >>
    ELSE SelectSeq(syms, LAMBDA y : /\ y.st_shndx # 0
                                    /\ ModWord(GnuHash(y.st_name, 1, Word32(0, 5381)), nb) = b)
         \o ByBucket(syms, nb, b + 1)

\* .dynsym: the null symbol, the undefined symbols, the defined ones in the
\* order the new style table needs
DynSym(syms, nb) ==
    << NullSym >> \o SelectSeq(syms, LAMBDA y : y.st_shndx = 0) \o ByBucket(syms, nb, 0)

\* the least member of S, 0 if there is none
FirstOf(S) == IF S = {} THEN 0 ELSE CHOOSE x \in S : \A y \in S : x <= y

\* .hash over symtab: nbucket, nchain, the buckets, the chains; every symbol
\* but the null one is on a chain
ElfHashTable(symtab, nb) ==
    LET n == Len(symtab)
        bucket(idx) == ModWord(WldElfHash(symtab[idx + 1].st_name, 1, Word32(0, 0)), nb)
    IN  << nb, n >>
        \o [b \in 1 .. nb |-> FirstOf({idx \in 1 .. n - 1 : bucket(idx) = b - 1})]
        \o [k \in 1 .. n |->
              IF k = 1 THEN 0
              ELSE FirstOf({j \in k .. n - 1 : bucket(j) = bucket(k - 1)})]

\* .gnu.hash over symtab: nbuckets, symoffset, bloom size, bloom shift, one
\* bloom word, the buckets, the hash values of the defined symbols with bit 0
\* set at the end of each chain
GnuHashTable(symtab, nb) ==
    LET n == Len(symtab)
        symbias == 1 + Cardinality({k \in 2 .. n : symtab[k].st_shndx = 0})
        hash(idx) == GnuHash(symtab[idx + 1].st_name, 1, Word32(0, 5381))
        bucket(idx) == ModWord(hash(idx), nb)
    IN  << nb, symbias, 1, 5, Word32(0, 0) >>
        \o [b \in 1 .. nb |-> FirstOf({idx \in symbias .. n - 1 : bucket(idx) = b - 1})]
        \o [k \in 1 .. n - symbias |->
              LET idx == symbias + k - 1
                  last == idx = n - 1 \/ bucket(idx + 1) # bucket(idx)
              IN  Word32(hash(idx).hi, ClearBit0(hash(idx)).lo + (IF last THEN 1 ELSE 0))]

\* the dynamic sections: none at all, either table, both, no table, no string
\* table
DynSections ==
    { [dynamic |-> FALSE, dyn |-> << >>],
      [dynamic |-> TRUE, dyn |-> << "DT_NEEDED", "DT_HASH", "DT_STRTAB", "DT_SYMTAB" >>],
      [dynamic |-> TRUE, dyn |-> << "DT_NEEDED", "DT_GNU_HASH", "DT_STRTAB", "DT_SYMTAB" >>],
      [dynamic |-> TRUE,
       dyn |-> << "DT_NEEDED", "DT_HASH", "DT_GNU_HASH", "DT_STRTAB", "DT_SYMTAB" >>],
      [dynamic |-> TRUE, dyn |-> << "DT_NEEDED", "DT_STRTAB", "DT_SYMTAB" >>],
      [dynamic |-> TRUE, dyn |-> << "DT_HASH", "DT_SYMTAB" >>] }

\* the numbers of buckets tried
BucketCounts == {1, 2, 3}

\* a loaded image with the symbols syms
DynImage(syms, nb, d, base) ==
    [l_addr |-> base, dynamic |-> d.dynamic, dyn |-> d.dyn, symtab |-> DynSym(syms, nb),
     hashtab |-> ElfHashTable(DynSym(syms, nb), nb),
     gnu_hashtab |-> GnuHashTable(DynSym(syms, nb), nb)]

\* the state in which find_symbol is called
SymEntry(img, var) ==
    /\ pc = "sym_call"
    /\ arch = "i386"
    /\ argc = 2
    /\ reserve = NoEnv
    /\ preload_info = InitialInfo
    /\ i = 0
    /\ preloader_start = \h7c400
    /\ preloader_end = \h7c404
    /\ pargc = [pg |-> \h7ffe0, off |-> \hf80]
    /\ av = AddBytes([pg |-> \h7ffe0, off |-> \hf80], AvIndex(2) * WordBytes("i386"))
    /\ stack = KernelStack("i386", 2, KernelAuxv(0, {}))
    /\ top = 1
    /\ avx = AvIndex(2)
    /\ strs = KernelStrs(2)
    /\ comm = << >>
    /\ files = [main |-> MainPie, interp |-> InterpDyn]
    /\ kernel = [refused |-> {}, prefer |-> << >>, prctl_ok |-> FALSE,
                 auxv |-> KernelAuxv(0, {})]
    /\ mem = InitialMem(\h7c400, \h7c404, [pg |-> \h7ffe0, off |-> \hf80],
                        [pg |-> \h7ffe0, off |-> \hf80], 0)
    /\ stderr = << >>
    /\ exit_status = Running
    /\ unmapped = {}
    /\ syscalls = << >>
    /\ lookup = [image |-> img, var |-> var, type |-> "STT_OBJECT"]
    /\ symbol = 0
    /\ message = NoMessage
    /\ buffer = << >>
    /\ is_unix_thread = FALSE
    /\ main_binary_map = [SomeMain EXCEPT !.l_addr = img.l_addr]
    /\ ld_so_map = SomeLdSo
    /\ info_ptr = NoStore
    /\ entry = 0
    /\ new_av = << >>
    /\ delete_av = << >>
    /\ av_count = 0
    /\ builtin_dlls = Range(0, 0)
    /\ regs = NoRegs

InitSym ==
    \E syms \in SymLists, nb \in BucketCounts, d \in DynSections, base \in {0, \h56555000},
       var \in {PreloadInfoName, MainName, EndName, DlopenName, AbsentName} :
       SymEntry(DynImage(syms, nb, d, base), var)

\* the call "find_symbol( &main_binary_map, ..., STT_OBJECT )"
SymCall ==
    /\ pc = "sym_call"
    /\ symbol' = FindSymbolIn(lookup.image, lookup.var, lookup.type)
    /\ pc' = "sym_done"
    /\ UNCHANGED << inputs, preload_info, i, mem, strs, comm, stack, top, avx, stderr,
                    exit_status, unmapped, syscalls, main_binary_map, ld_so_map, info_ptr,
                    entry, new_av, delete_av, av_count, builtin_dlls, regs, buffer,
                    is_unix_thread >>

NextSym == SymCall

SpecSym == InitSym /\ [][NextSym]_vars

-----------------------------------------------------------------------------
(* preload_reserve on its own, against the list of either word size *)

\* a page number that needs more than 31 bits: hi * 2^16 + lo
WidePage(hi, lo) == [hi |-> hi, lo |-> lo]

\* static struct wine_preload_info preload_info[], x86_64 on Linux
StaticInfo64 ==
    << Range(\h00010, \h00100),                    \* DOS area
       Range(\h00110, \h67ef0),                    \* low memory area
       Range(\h7ff00, \h000f0),                    \* shared user data
       Range(WidePage(\h7ffff, \he000), \h01ff0),  \* top-down allocations + virtual heap
       Range(0, 0),                                \* PE exe range set with WINEPRELOADRESERVE
       Range(0, 0) >>                              \* end of list

\* the list the loader is built with for word size a
InitialInfoOf(a) ==
    IF a = "i386" THEN InitialInfo
    ELSE [k \in 0 .. Len(StaticInfo64) - 1 |-> StaticInfo64[k + 1]]

\* n in hex digits, as the user writes it
RECURSIVE HexString(_)
HexString(n) ==
    IF n < 16 THEN << HexDigits[n + 1] >>
    ELSE Append(HexString(n \div 16), HexDigits[(n % 16) + 1])

\* the addresses the user's ranges start and end at
UserAddrs ==
    { \h0, \h1000, \h8000, \h10000, \h20000, \h110000, \h200000, \h50000000, \h67fff000,
      \h68000000, \h70000000, \h7a000000 }

\* the state in which preload_reserve is called with the range from to
ReserveEntry(a, from, to) ==
    /\ pc = "reserve_call"
    /\ arch = a
    /\ argc = 2
    /\ reserve = Env(HexString(from) \o << "-" >> \o HexString(to))
    /\ preload_info = InitialInfoOf(a)
    /\ i = 0
    /\ preloader_start = \h7c400
    /\ preloader_end = \h7c404
    /\ pargc = [pg |-> \h7ffe0, off |-> \hf80]
    /\ av = AddBytes([pg |-> \h7ffe0, off |-> \hf80], AvIndex(2) * WordBytes(a))
    /\ stack = KernelStack(a, 2, KernelAuxv(0, {}))
    /\ top = 1
    /\ avx = AvIndex(2)
    /\ strs = KernelStrs(2)
    /\ comm = << >>
    /\ files = [main |-> MainPie, interp |-> InterpDyn]
    /\ kernel = [refused |-> {}, prefer |-> << >>, prctl_ok |-> FALSE,
                 auxv |-> KernelAuxv(0, {})]
    /\ mem = InitialMem(\h7c400, \h7c404, [pg |-> \h7ffe0, off |-> \hf80],
                        [pg |-> \h7ffe0, off |-> \hf80], 0)
    /\ stderr = << >>
    /\ exit_status = Running
    /\ unmapped = {}
    /\ syscalls = << >>
    /\ lookup = NoLookup
    /\ symbol = 0
    /\ message = NoMessage
    /\ buffer = << >>
    /\ is_unix_thread = FALSE
    /\ main_binary_map = NoLinkMap
    /\ ld_so_map = NoLinkMap
    /\ info_ptr = NoStore
    /\ entry = 0
    /\ new_av = << >>
    /\ delete_av = << >>
    /\ av_count = 0
    /\ builtin_dlls = Range(0, 0)
    /\ regs = NoRegs

InitReserve ==
    \E a \in {"i386", "x86_64"}, from \in UserAddrs, to \in UserAddrs :
       from < to /\ ReserveEntry(a, from, to)

\* the call "preload_reserve( reserve )"
ReserveCall ==
    /\ pc = "reserve_call"
    /\ LET r == PreloadReserve(reserve.str, preload_info, preloader_start, preloader_end)
       IN  /\ preload_info' = r.info
           /\ stderr' = IF r.warn THEN Append(stderr, Msg("range overlaps preloader", << >>))
                        ELSE stderr
           /\ pc' = IF r.fatal THEN "exited" ELSE "reserve_done"
           /\ exit_status' = IF r.fatal THEN 1 ELSE exit_status
    /\ UNCHANGED << inputs, elsewhere, locals, i, mem, strs, comm, stack, top, avx, unmapped,
                    syscalls, main_binary_map, ld_so_map, info_ptr, entry >>

NextReserve == ReserveCall

SpecReserve == InitReserve /\ [][NextReserve]_vars

-----------------------------------------------------------------------------
(* _start, the trampolines of the i386 and the x86_64 build *)

\* the general-purpose registers other than the stack pointer
GeneralRegs(a) ==
    IF a = "x86_64"
    THEN {"rax", "rbx", "rcx", "rdx", "rsi", "rdi", "rbp",
          "r8", "r9", "r10", "r11", "r12", "r13", "r14", "r15"}
    ELSE {"eax", "ebx", "ecx", "edx", "esi", "edi", "ebp"}

\* the registers a C function may leave changed
CallerSaved(a) ==
    IF a = "x86_64"
    THEN {"rax", "rcx", "rdx", "rsi", "rdi", "r8", "r9", "r10", "r11"}
    ELSE {"eax", "ecx", "edx"}

\* the stack pointer, the instruction pointer, and what holds the thread
\* pointer: the segment registers on i386, the FS base on x86_64
OtherRegs(a) == IF a = "x86_64" THEN {"rsp", "rip", "fs_base"} ELSE {"esp", "eip", "gs", "fs"}

Sp(a) == IF a = "x86_64" THEN "rsp" ELSE "esp"
Ip(a) == IF a = "x86_64" THEN "rip" ELSE "eip"
Ax(a) == IF a = "x86_64" THEN "rax" ELSE "eax"

\* &thread_ldt and thread_data, in the loader's data
ThreadLdt == \h7c403000
ThreadData == \h7c403100

\* the selector of the GDT entry that set_thread_area allocates:
\* "shl $3,%eax; orl $3,%eax" of entry number 6
TlsSelector == 6 * 8 + 3

\* the bytes the trampoline leaves free below the incoming stack pointer
ScratchBytes(a) == IF a = "x86_64" THEN 144 ELSE 136

\* the byte address of word k of the stack
WordAt(sp, k, a) == sp.pg * PageBytes + sp.off + k * WordBytes(a)

\* a trampoline that zeroes the return register only
ZeroedRegsOne(a) == {Ax(a)}

\* the registers the trampoline zeroes before the jump
ZeroedRegs(a) ==
    IF a = "x86_64"
    THEN {"rax", "rcx", "rdx", "rsi", "rdi", "r8", "r9", "r10", "r11"}
    ELSE {"eax", "ecx", "edx"}

\* the registers that hold the thread pointer and are cleared before the jump
ClearedSegs(a) == IF a = "x86_64" THEN {} ELSE {"gs"}

\* the values a caller-saved register may hold when wld_start returns
Clobbers == {0, \h5a5a}

\* the entry points wld_start may return
EntryPoints == {\h68000100, \h6c000100}

\* by how many auxv entries set_auxiliary_values may grow the stack
Grows == -2 .. 3

\* the kernel starts a process with every general-purpose register zero
TrampEntry(a, o) ==
    /\ pc = "t_entry"
    /\ arch = a
    /\ argc = 2
    /\ reserve = NoEnv
    /\ preload_info = InitialInfo
    /\ i = 0
    /\ preloader_start = \h7c400
    /\ preloader_end = \h7c404
    /\ pargc = [pg |-> \h7ffe0, off |-> \hf80 + o]
    /\ av = AddBytes([pg |-> \h7ffe0, off |-> \hf80 + o], AvIndex(2) * WordBytes(a))
    /\ stack = KernelStack(a, 2, KernelAuxv(0, {}))
    /\ top = 0
    /\ avx = AvIndex(2)
    /\ strs = KernelStrs(2)
    /\ comm = << >>
    /\ files = [main |-> MainPie, interp |-> InterpDyn]
    /\ kernel = [refused |-> {}, prefer |-> << >>, prctl_ok |-> FALSE,
                 auxv |-> KernelAuxv(0, {})]
    /\ mem = InitialMem(\h7c400, \h7c404, [pg |-> \h7ffe0, off |-> \hf80 + o],
                        [pg |-> \h7ffe0, off |-> \hf80 + o], 0)
    /\ stderr = << >>
    /\ exit_status = Running
    /\ unmapped = {}
    /\ syscalls = << >>
    /\ lookup = NoLookup
    /\ symbol = 0
    /\ message = NoMessage
    /\ buffer = << >>
    /\ is_unix_thread = FALSE
    /\ main_binary_map = NoLinkMap
    /\ ld_so_map = NoLinkMap
    /\ info_ptr = NoStore
    /\ entry = 0
    /\ new_av = << >>
    /\ delete_av = << >>
    /\ av_count = 0
    /\ builtin_dlls = Range(0, 0)
    /\ regs = [r \in GeneralRegs(a) \cup OtherRegs(a) |->
                 IF r = Sp(a) THEN WordAt([pg |-> \h7ffe0, off |-> \hf80 + o], 0, a)
                 ELSE IF r = Ip(a) THEN \h7c400100
                 ELSE 0]

InitTramp == \E a \in {"i386", "x86_64"} : TrampEntry(a, 0)

\* what the trampoline never touches
trampIdle == << inputs, locals, builtin_dlls, preload_info, i, mem, stack, avx, strs, comm,
                stderr, unmapped, syscalls, main_binary_map, ld_so_map, info_ptr, symbol,
                buffer, is_unix_thread >>

\* from _start to "call wld_start": the thread pointer is installed when the
\* kernel grants it, room is left below the stack pointer, and the pointer to
\* the saved stack pointer is passed
TrampEnter ==
    /\ pc = "t_entry"
    /\ \E granted \in BOOLEAN :
          regs' = IF arch = "x86_64"
                  THEN [regs EXCEPT !["rax"] = IF granted THEN 0 ELSE -38,
                                    !["rcx"] = regs["rip"],
                                    !["r11"] = \h246,
                                    !["rsi"] = ThreadData,
                                    !["rdi"] = regs["rsp"] - ScratchBytes(arch),
                                    !["rsp"] = regs["rsp"] - ScratchBytes(arch),
                                    !["fs_base"] = IF granted THEN ThreadData ELSE 0]
                  ELSE [regs EXCEPT !["eax"] = regs["esp"],
                                    !["ebx"] = ThreadLdt,
                                    !["esp"] = regs["esp"] - ScratchBytes(arch) - 8,
                                    !["gs"] = IF granted THEN TlsSelector ELSE 0,
                                    !["fs"] = IF granted THEN TlsSelector ELSE 0]
    /\ pc' = "t_call"
    /\ UNCHANGED << trampIdle, top, entry, exit_status >>

\* wld_start runs: it ends the process, or it returns the entry point with
\* *stack rewritten; the caller-saved registers come back with any value
TrampCall ==
    /\ pc = "t_call"
    /\ \/ /\ pc' = "exited"
          /\ exit_status' = 1
          /\ UNCHANGED << regs, top, entry >>
       \/ \E e \in EntryPoints, g \in Grows, c \in [CallerSaved(arch) -> Clobbers] :
             /\ regs' = [r \in DOMAIN regs |->
                           IF r = Ax(arch) THEN e
                           ELSE IF r \in CallerSaved(arch) THEN c[r]
                           ELSE regs[r]]
             /\ top' = NewStackTop(1, g, pargc.off, WordBytes(arch))
             /\ entry' = e
             /\ pc' = "t_ret"
             /\ UNCHANGED exit_status
    /\ UNCHANGED trampIdle

\* from the return of wld_start to "ret": the new stack pointer is loaded,
\* registers are zeroed and the jump is made
TrampLeave ==
    /\ pc = "t_ret"
    /\ regs' = [r \in DOMAIN regs |->
                  IF r = Sp(arch) THEN WordAt(pargc, top, arch)
                  ELSE IF r = Ip(arch) THEN regs[Ax(arch)]
                  ELSE IF r \in ZeroedRegs(arch) \cup ClearedSegs(arch) THEN 0
                  ELSE regs[r]]
    /\ pc' = "handoff"
    /\ UNCHANGED << trampIdle, top, entry, exit_status >>

NextTramp == TrampEnter \/ TrampCall \/ TrampLeave

SpecTramp == InitTramp /\ [][NextTramp]_vars

-----------------------------------------------------------------------------
(* wld_vsprintf, wld_printf and fatal_error on their own *)

\* char buffer[256] of wld_printf and of fatal_error
BufferSize == 256

\* x >> (4 * k)
RECURSIVE ShiftRight4(_, _)
ShiftRight4(x, k) == IF k = 0 THEN x ELSE ShiftRight4(x \div 16, k - 1)

\* "for (i = n - 1; i >= 0; i--) *str++ = hex_chars[(x>>(i*4))&0xf]"
HexOut(x, n) == [k \in 1 .. n |-> HexDigits[(ShiftRight4(x, n - k) % 16) + 1]]

\* *p: the character of the format at p, the terminator past its end
CharAt(fmt, p) == IF p <= Len(fmt) THEN fmt[p] ELSE NUL

\* the characters wld_vsprintf stores before the terminator: p is the place
\* in the format, args the arguments not yet taken, str what is stored so
\* far.  The character after a conversion is copied without being looked at;
\* no format of the source ends in a conversion, and the walk ends at one
\* that does.
RECURSIVE VsprintfFrom(_, _, _, _, _)
VsprintfFrom(a, fmt, p, args, str) ==
    IF CharAt(fmt, p) = NUL THEN str
    ELSE IF CharAt(fmt, p) # "%"
    THEN VsprintfFrom(a, fmt, p + 1, args, Append(str, fmt[p]))
    ELSE LET c == CharAt(fmt, p + 1)
             long == c = "l" /\ CharAt(fmt, p + 2) = "x"
             taken == c \in {"x", "p", "s"} \/ long
             out == IF c = "x" THEN HexOut(Head(args), 8)
                    ELSE IF long \/ c = "p" THEN HexOut(Head(args), 2 * WordBytes(a))
                    ELSE IF c = "s" THEN Head(args)
                    ELSE << >>
             q == IF long THEN p + 3 ELSE p + 2
         IN  IF c = NUL THEN str
             ELSE IF CharAt(fmt, q) = NUL THEN str \o out
             ELSE VsprintfFrom(a, fmt, q + 1, IF taken THEN Tail(args) ELSE args,
                               Append(str \o out, fmt[q]))

\* the bytes wld_vsprintf( buffer, fmt, args ) stores: the text and "*str = 0"
WldVsprintf(a, fmt, args) == Append(VsprintfFrom(a, fmt, 1, args, << >>), NUL)

\* fatal_error, line 937
CouldNotOpenFmt ==
    << "%","s",":"," ","c","o","u","l","d"," ","n","o","t"," ","o","p","e","n","\n" >>

\* fatal_error, line 1077
OverlapsPreloaderFmt ==
    << "%","s",":"," ","b","i","n","a","r","y"," ","o","v","e","r","l","a","p","s"," ","p","r",
       "e","l","o","a","d","e","r"," ","(","%","p","-","%","p",")","\n" >>

\* fatal_error, line 1151
NoProgramHeaderFmt ==
    << "n","o"," ","p","r","o","g","r","a","m"," ","h","e","a","d","e","r","\n" >>

\* wld_printf, line 1307
RangeOverlapsFmt ==
    << "W","I","N","E","P","R","E","L","O","A","D","R","E","S","E","R","V","E"," ","r","a","n",
       "g","e"," ","%","p","-","%","p"," ","o","v","e","r","l","a","p","s"," ","p","r","e","l",
       "o","a","d","e","r"," ","%","p","-","%","p","\n" >>

\* fatal_error, line 1332
InvalidValueFmt ==
    << "i","n","v","a","l","i","d"," ","W","I","N","E","P","R","E","L","O","A","D","R","E","S",
       "E","R","V","E"," ","v","a","l","u","e"," ","'","%","s","'","\n" >>

\* fatal_error, line 1609
UsageFmt ==
    << "U","s","a","g","e",":"," ","%","s"," ","w","i","n","e","_","b","i","n","a","r","y"," ",
       "[","a","r","g","s","]","\n" >>

\* wld_printf, line 1631
ArgvLineFmt ==
    << "a","r","g","v","[","%","l","x","]"," ","="," ","%","s","\n" >>

\* wld_printf, line 1650
FailedToReserveFmt ==
    << "p","r","e","l","o","a","d","e","r",":"," ","W","a","r","n","i","n","g",":"," ","f","a",
       "i","l","e","d"," ","t","o"," ","r","e","s","e","r","v","e"," ","r","a","n","g","e"," ",
       "%","p","-","%","p","\n" >>

\* wld_printf, line 1195
PhdrLineFmt ==
    << "%","p"," ","%","x","\n" >>


\* a call of wld_printf (fatal FALSE) or of fatal_error (fatal TRUE)
Message(fmt, args, fatal) == [fmt |-> fmt, args |-> args, fatal |-> fatal]

\* the lengths of the strings printed with %s: a path, a value of
\* WINEPRELOADRESERVE
ArgLens == {0, 1, 100, 219, 220, 237, 300}

\* the strings printed with %s
ArgTexts == {[k \in 1 .. n |-> "a"] : n \in ArgLens}

\* the addresses and numbers printed with %p, %x and %lx
ArgWords == {\h00110000, \h7ffe0f80}

\* the calls the loader makes
Messages ==
    {Message(CouldNotOpenFmt, << s >>, TRUE) : s \in ArgTexts}
    \cup {Message(OverlapsPreloaderFmt, << s, x, x + \h1000 >>, TRUE) :
             s \in ArgTexts, x \in ArgWords}
    \cup {Message(NoProgramHeaderFmt, << >>, TRUE)}
    \cup {Message(RangeOverlapsFmt, << x, x + \h1000, \h7c400000, \h7c404000 >>, FALSE) :
             x \in ArgWords}
    \cup {Message(InvalidValueFmt, << s >>, TRUE) : s \in ArgTexts}
    \cup {Message(UsageFmt, << s >>, TRUE) : s \in ArgTexts}
    \cup {Message(ArgvLineFmt, << n, s >>, FALSE) : n \in {0, 1}, s \in ArgTexts}
    \cup {Message(FailedToReserveFmt, << x, x + \h1000 >>, FALSE) : x \in ArgWords}
    \cup {Message(PhdrLineFmt, << x, 9 >>, FALSE) : x \in ArgWords}

\* the state in which the call msg is about to be made
MessageEntry(a, msg) ==
    /\ pc = "printf_call"
    /\ arch = a
    /\ argc = 2
    /\ reserve = NoEnv
    /\ preload_info = InitialInfoOf(a)
    /\ i = 0
    /\ preloader_start = \h7c400
    /\ preloader_end = \h7c404
    /\ pargc = [pg |-> \h7ffe0, off |-> \hf80]
    /\ av = AddBytes([pg |-> \h7ffe0, off |-> \hf80], AvIndex(2) * WordBytes(a))
    /\ stack = KernelStack(a, 2, KernelAuxv(0, {}))
    /\ top = 1
    /\ avx = AvIndex(2)
    /\ strs = KernelStrs(2)
    /\ comm = << >>
    /\ files = [main |-> MainPie, interp |-> InterpDyn]
    /\ kernel = [refused |-> {}, prefer |-> << >>, prctl_ok |-> FALSE,
                 auxv |-> KernelAuxv(0, {})]
    /\ mem = InitialMem(\h7c400, \h7c404, [pg |-> \h7ffe0, off |-> \hf80],
                        [pg |-> \h7ffe0, off |-> \hf80], 0)
    /\ stderr = << >>
    /\ exit_status = Running
    /\ unmapped = {}
    /\ syscalls = << >>
    /\ lookup = NoLookup
    /\ symbol = 0
    /\ message = msg
    /\ buffer = << >>
    /\ is_unix_thread = FALSE
    /\ main_binary_map = NoLinkMap
    /\ ld_so_map = NoLinkMap
    /\ info_ptr = NoStore
    /\ entry = 0
    /\ new_av = << >>
    /\ delete_av = << >>
    /\ av_count = 0
    /\ builtin_dlls = Range(0, 0)
    /\ regs = NoRegs

InitVsprintf == \E a \in {"i386", "x86_64"}, msg \in Messages : MessageEntry(a, msg)

\* what a call of wld_printf or fatal_error leaves alone
printfIdle == << inputs, locals, builtin_dlls, regs, symbol, is_unix_thread, preload_info, i, mem, strs, comm,
                 stack, top, avx, unmapped, syscalls, main_binary_map, ld_so_map, info_ptr,
                 entry >>

\* "len = wld_vsprintf(buffer, fmt, args ); wld_write(2, buffer, len);".  A
\* text longer than the buffer is stored past its end, over the frame of the
\* caller: the text may or may not reach fd 2 and the process may be killed.
WldPrintf ==
    /\ pc = "printf_call"
    /\ ~message.fatal
    /\ LET stored == WldVsprintf(arch, message.fmt, message.args)
           text == SubSeq(stored, 1, Len(stored) - 1)
       IN  /\ buffer' = stored
           /\ \E written \in BOOLEAN, killed \in BOOLEAN :
                 /\ Len(stored) <= BufferSize => written /\ ~killed
                 /\ stderr' = IF written THEN Append(stderr, text) ELSE stderr
                 /\ exit_status' = IF killed THEN Killed ELSE exit_status
                 /\ pc' = IF killed THEN "exited" ELSE "printf_done"
    /\ UNCHANGED printfIdle

\* the same, followed by "wld_exit(1)"
FatalErrorCall ==
    /\ pc = "printf_call"
    /\ message.fatal
    /\ LET stored == WldVsprintf(arch, message.fmt, message.args)
           text == SubSeq(stored, 1, Len(stored) - 1)
       IN  /\ buffer' = stored
           /\ \E written \in BOOLEAN, killed \in BOOLEAN :
                 /\ Len(stored) <= BufferSize => written /\ ~killed
                 /\ stderr' = IF written THEN Append(stderr, text) ELSE stderr
                 /\ exit_status' = IF killed THEN Killed ELSE 1
                 /\ pc' = "exited"
    /\ UNCHANGED printfIdle

NextVsprintf == WldPrintf \/ FatalErrorCall

SpecVsprintf == InitVsprintf /\ [][NextVsprintf]_vars

-----------------------------------------------------------------------------
(* Properties of the reservation list *)

\* the indices of the entries present in the list
Listed(info) == {k \in 0 .. InfoSlots - 1 : info[k].size # 0}

\* the ranges the program starts with
StaticRanges == {StaticInfo[k] : k \in 1 .. NStatic}

\* the regions q cover every page of [lo, hi)
CoveredBy(q, lo, hi) ==
    \/ hi <= lo
    \/ \A x \in {lo} \cup {r.hi : r \in {t \in q : lo < t.hi /\ t.hi < hi}} :
          \E r \in q : r.lo <= x /\ x < r.hi

\* two ranges share a page
Overlap(a, b) == a.addr < b.addr + b.size /\ b.addr < a.addr + a.size

\* the end of the low memory area, the last static range that
\* preload_reserve cuts a user range against
LowMemEnd == StaticInfo[4].addr + StaticInfo[4].size

\* the positions after the reservation pass
AfterPass == {"load_main", "load_interp", "set_auxv", "handoff"}

\* C1 as stated: at hand-off on an ELF host every entry still in the list is
\* backed, over its whole length, by pages without any access permission.
C1_AllNoAccess ==
    pc = "handoff" =>
        \A k \in Listed(preload_info) :
            CoveredBy({r \in mem : r.prot = PROT_NONE},
                      preload_info[k].addr, preload_info[k].addr + preload_info[k].size)

\* C1, corrected: at hand-off on an ELF host every page of every entry still
\* in the list is mapped, and it has no access permission unless it is the
\* page just below 0x80000000, which is readable and executable, or a page
\* over which a segment of a fixed-address main binary was mapped.
C1_NoAccessButTopPage ==
    pc = "handoff" =>
        \A k \in Listed(preload_info) :
            CoveredBy({r \in mem :
                         \/ r.prot = PROT_NONE
                         \/ r.lo = TopPage /\ r.hi = TopPage + 1 /\ r.prot = {"r", "x"}
                         \/ r.kind \in {"image", "anon"} /\ files.main.e_type = "ET_EXEC"},
                      preload_info[k].addr, preload_info[k].addr + preload_info[k].size)

\* hand-off with the top-down range and a user range in the list, the top
\* page executable
C1_Witness ==
    /\ pc = "handoff"
    /\ IsAddrReserved(preload_info, TopPage)
    /\ \E r \in mem : r.lo = TopPage /\ r.prot = {"r", "x"}
    /\ \E k \in Listed(preload_info) : preload_info[k] \notin StaticRanges

\* C2 as stated: after preload_reserve and the reservation pass no two
\* entries of the list overlap.
C2_NoOverlap ==
    pc \in AfterPass =>
        \A j, k \in Listed(preload_info) :
            j < k => ~Overlap(preload_info[j], preload_info[k])

\* C2, corrected: after preload_reserve and the reservation pass the static
\* ranges do not overlap each other, and the range taken from
\* WINEPRELOADRESERVE overlaps no static range based at or below 0x00110000;
\* an overlap, if any, is between that range and the top-down range.
C2_NoLowOverlap ==
    pc \in AfterPass =>
        \A j, k \in Listed(preload_info) :
            (j < k /\ Overlap(preload_info[j], preload_info[k])) =>
                /\ preload_info[j].addr > LowMemLimit
                /\ preload_info[j] \in StaticRanges
                /\ preload_info[k] \notin StaticRanges
                /\ k + 1 \notin Listed(preload_info)

\* the pass is over with a user range in the list that began below the end
\* of the low memory area and was cut
C2_Witness ==
    /\ pc \in AfterPass
    /\ reserve.set
    /\ ~ParseRange(reserve.str).error
    /\ ParseRange(reserve.str).start < LowMemEnd
    /\ \E k \in Listed(preload_info) :
          preload_info[k].addr = LowMemEnd /\ preload_info[k] \notin StaticRanges

\* the range the string of WINEPRELOADRESERVE names, in pages
Parsed == ParseRange(reserve.str)

\* WINEPRELOADRESERVE names a non-empty range START-END that does not touch
\* the loader's extent [preloader_start, preloader_end]
ValidClearOfLoader ==
    /\ reserve.set
    /\ ~Parsed.error
    /\ Parsed.start < Parsed.end
    /\ ~(Parsed.end > preloader_start /\ Parsed.start <= preloader_end)

\* range e is clear of the incoming stack and the kernel maps it
Accepted(e) == ~OverlapsStack(e, pargc, av) /\ ~Refuses(kernel, e)

\* the list holds e, and every page of e has no access permission
ReservedNoAccess(e) ==
    /\ \E k \in Listed(preload_info) : preload_info[k] = e
    /\ CoveredBy({r \in mem : r.prot = PROT_NONE}, e.addr, e.addr + e.size)

C9_LoaderKeptClear ==
    /\ pc \notin {"start", "reserve"} =>
          /\ \A k \in Listed(preload_info) :
                preload_info[k] \notin StaticRanges =>
                    ~(/\ preload_info[k].addr + preload_info[k].size > preloader_start
                      /\ preload_info[k].addr <= preloader_end)
          /\ (/\ reserve.set
              /\ ~Parsed.error
              /\ Parsed.start < Parsed.end
              /\ Parsed.end > preloader_start
              /\ Parsed.start <= preloader_end)
             => \A k \in Listed(preload_info) : preload_info[k] \in StaticRanges
    /\ \A r \in mem :
          r.kind = "reserve" => (r.hi <= preloader_start \/ preloader_end <= r.lo)

\* the pass is over for a value that names pages of the loader
C9_Witness ==
    /\ pc = "handoff"
    /\ reserve.set
    /\ ~Parsed.error
    /\ Parsed.start < Parsed.end
    /\ Parsed.end > preloader_start
    /\ Parsed.start < preloader_end
    /\ Len(stderr) > 0
    /\ stderr[1].msg = "range overlaps preloader"

-----------------------------------------------------------------------------
(* Properties of the parser *)

HexChars == {"0", "1", "2", "3", "4", "5", "6", "7", "8", "9",
             "a", "b", "c", "d", "e", "f", "A", "B", "C", "D", "E", "F"}

Dashes(str) == {k \in 1 .. Len(str) : str[k] = "-"}

AllHex(str, from, to) == \A k \in from .. to : str[k] \in HexChars

\* "0", or HEXSTART-HEXEND with at least one digit on either side
WellFormed(str) ==
    \/ str = << "0" >>
    \/ \E d \in Dashes(str) :
          /\ 1 < d /\ d < Len(str)
          /\ AllHex(str, 1, d - 1)
          /\ AllHex(str, d + 1, Len(str))

\* the process ended in fatal_error over the string
RejectedString ==
    /\ pc = "exited"
    /\ exit_status = 1
    /\ stderr = << Msg("invalid WINEPRELOADRESERVE value", reserve.str) >>
    /\ preload_info = InitialInfo

\* no complaint about the string was written
NoComplaint == \A k \in 1 .. Len(stderr) : stderr[k].msg # "invalid WINEPRELOADRESERVE value"

NonZeroNumber(str) ==
    \E k \in 1 .. Len(str) : k > Len(str) - 8 /\ str[k] # "0"

\* what preload_reserve takes for an error: a character that is neither a
\* hex digit nor '-', a second '-', or a number other than 0 without a '-'
Malformed(str) ==
    \/ \E k \in 1 .. Len(str) : str[k] \notin HexChars \cup {"-"}
    \/ Cardinality(Dashes(str)) >= 2
    \/ Dashes(str) = {} /\ NonZeroNumber(str)

-----------------------------------------------------------------------------
(* Properties of the rewritten auxv *)

\* the values of the live entries of the auxv that carry tag t
Values(t) == {AvVal(stack, avx, k) : k \in {j \in 0 .. av_count - 1 : AvType(stack, avx, j) = t}}

\* exactly one live entry carries tag t, with value v
Holds(t, v) ==
    /\ Values(t) = {v}
    /\ Cardinality({j \in 0 .. av_count - 1 : AvType(stack, avx, j) = t}) = 1

\* the first PT_LOAD program header of file f
FirstLoad(f) == SelectSeq(f.ph, LAMBDA h : h.p_type = "PT_LOAD")[1]

\* the image of f, loaded with bias b, has its first page mapped from the file
LoadedAt(f, b) ==
    \E r \in mem : /\ r.kind = "image"
                   /\ r.lo = PageOf(b + FirstLoad(f).p_vaddr)

\* C3: after set_auxiliary_values returns, the entry that follows the last
\* live entry of the rewritten auxv is the terminator: a_type = AT_NULL and
\* a_val = 0.
C3_Terminated ==
    pc = "handoff" =>
        /\ AvType(stack, avx, av_count) = AT_NULL
        /\ AvVal(stack, avx, av_count) = 0

\* C4: the stack top that set_auxiliary_values writes back is a multiple of
\* 16, whatever the number of entries added or deleted and whatever the
\* alignment of the stack top it was given.
C4_TopAligned ==
    pc = "auxv_done" => (pargc.off + top * WordBytes(arch)) % 16 = 0

\* set_auxiliary_values returned from a stack top that was not a multiple of
\* 16, having deleted entries and added more than it deleted
C4_Witness ==
    /\ pc = "auxv_done"
    /\ (pargc.off + WordBytes(arch)) % 16 # 0
    /\ top < 0
    /\ delete_av # << >>
    /\ av_count > Len(kernel.auxv)

\* C6: at hand-off the live entries of the rewritten auxv hold AT_PHDR = the
\* address of the main image's program headers under its load bias, inside
\* the image's mapped extent, AT_PHNUM = its e_phnum, AT_BASE = the load bias
\* of the interpreter, AT_PAGESZ = the page size and AT_ENTRY = the main
\* image's e_entry under its load bias, each exactly once and whether or not
\* the kernel supplied the tag; the address returned is the interpreter's
\* e_entry under its load bias.
C6_AuxvForInterpreter ==
    pc = "handoff" =>
        LET mb == main_binary_map.l_addr
            lb == ld_so_map.l_addr
            phdr == mb + FirstLoad(files.main).p_vaddr - FirstLoad(files.main).p_offset
                    + files.main.e_phoff
        IN  /\ LoadedAt(files.main, mb)
            /\ LoadedAt(files.interp, lb)
            /\ Holds(AT_PHDR, phdr)
            /\ main_binary_map.l_map_start <= phdr
            /\ phdr + files.main.e_phnum * PhdrSize <= main_binary_map.l_map_end
            /\ IsMapped(mem, PageOf(phdr))
            /\ Holds(AT_PHNUM, files.main.e_phnum)
            /\ Holds(AT_BASE, lb)
            /\ Holds(AT_PAGESZ, PageBytes)
            /\ Holds(AT_ENTRY, mb + files.main.e_entry)
            /\ entry = lb + files.interp.e_entry

\* hand-off after a kernel auxv that lacked every tag the claim names
C6_Witness ==
    /\ pc = "handoff"
    /\ \A k \in 1 .. Len(kernel.auxv) :
          kernel.auxv[k].a_type \notin {AT_PHDR, AT_PHNUM, AT_BASE, AT_PAGESZ, AT_ENTRY}
    /\ files.main.e_type = "ET_DYN"
    /\ Holds(AT_BASE, ld_so_map.l_addr)
    /\ entry = ld_so_map.l_entry

-----------------------------------------------------------------------------
(* Properties of the Mach-O start routine and of the trampolines *)

\* every page of range e is mapped in address space m
Backed(m, e) == CoveredBy(m, e.addr, e.addr + e.size)

\* C5: the loader never unmaps any part of a range that is still in the
\* reservation list: no step takes a page away from an entry that was backed
\* by a mapping before the step and is in the list before and after it.
C5_NeverUnmapsListed ==
    [][\A j, k \in 0 .. InfoSlots - 1 :
          (/\ preload_info[j].size # 0
           /\ preload_info'[k] = preload_info[j]
           /\ Backed(mem, preload_info[j]))
          => Backed(mem', preload_info[j])]_vars

\* the registers a C function hands back as it found them
CalleeSaved(a) == GeneralRegs(a) \ CallerSaved(a)

\* the thread pointer is cleared: no segment register selects the TLS
\* segment and the FS base is 0
TlsCleared ==
    \A r \in {"gs", "fs", "fs_base"} \cap DOMAIN regs : regs[r] = 0

\* C10 as stated: on every path to the jump the TLS segment installed at
\* trampoline entry has been cleared again and all general-purpose registers
\* other than the stack pointer are zero, on both trampolines.
C10_FreshProcess ==
    pc = "handoff" =>
        /\ TlsCleared
        /\ \A r \in GeneralRegs(arch) : regs[r] = 0

\* C10, corrected: at the jump the stack pointer is the rewritten stack top,
\* a multiple of 16, and the instruction pointer is the address wld_start
\* returned; the registers a C function may clobber (eax, ecx, edx on i386;
\* rax, rcx, rdx, rsi, rdi, r8-r11 on x86_64) are zero and the others still
\* hold the zero the kernel started the process with, but for ebx, which
\* holds the address of thread_ldt; on i386 %gs is cleared while %fs still selects the TLS
\* segment when set_thread_area granted it, and on x86_64 the FS base is
\* still thread_data when arch_prctl granted it.
C10_CallerSavedZero ==
    pc = "handoff" =>
        /\ regs[Sp(arch)] = WordAt(pargc, top, arch)
        /\ regs[Sp(arch)] % 16 = 0
        /\ regs[Ip(arch)] = entry
        /\ \A r \in CallerSaved(arch) : regs[r] = 0
        /\ \A r \in CalleeSaved(arch) : regs[r] = IF r = "ebx" THEN ThreadLdt ELSE 0
        /\ arch = "i386" => regs["gs"] = 0 /\ regs["fs"] \in {0, TlsSelector}
        /\ arch = "x86_64" => regs["fs_base"] \in {0, ThreadData}

\* the jump of the i386 trampoline with %fs still set, after wld_start left
\* values in the caller-saved registers
C10_Witness ==
    /\ pc = "handoff"
    /\ arch = "i386"
    /\ regs["fs"] = TlsSelector
    /\ regs["gs"] = 0
    /\ regs["eip"] = entry
    /\ entry \in EntryPoints

-----------------------------------------------------------------------------
(* map_so_lib: the zero fill *)

\* the objects map_so_lib has loaded, each with its file and its link map
LoadedObjects ==
    (IF main_binary_map # NoLinkMap
     THEN {[f |-> files.main, l |-> main_binary_map]} ELSE {})
    \cup (IF ld_so_map # NoLinkMap
          THEN {[f |-> InterpFile(main_binary_map, files), l |-> ld_so_map]} ELSE {})

\* the PT_LOAD program headers of f whose memory size exceeds the file size
BssHeaders(f) == { k \in 1 .. f.e_phnum : f.ph[k].p_type = "PT_LOAD"
                                          /\ f.ph[k].p_memsz > f.ph[k].p_filesz }

\* page p of address space m has protection prot
ProtIs(m, p, prot) == \E r \in m : r.lo <= p /\ p < r.hi /\ r.prot = prot

\* page p of address space m is an anonymous mapping
IsAnon(m, p) == \E r \in m : r.lo <= p /\ p < r.hi /\ r.kind = "anon"

\* C11: after map_so_lib has loaded an object, the bytes of every PT_LOAD
\* segment between the end of its file data and the end of its memory size
\* read as zero, also when the segment is not writable; the pages holding
\* them have exactly the segment's protection, and the whole pages after the
\* page of the last file byte are anonymous mappings
C11_TailZeroed ==
    \A o \in LoadedObjects : \A k \in BssHeaders(o.f) :
        LET ph == o.f.ph[k]
            lo == o.l.l_addr + ph.p_vaddr + ph.p_filesz
            hi == o.l.l_addr + ph.p_vaddr + ph.p_memsz
        IN  /\ ReadsZero(syscalls, Len(syscalls), lo, hi)
            /\ \A p \in PageOf(lo) .. PageOf(hi - 1) :
                 /\ ProtIs(mem, p, ph.p_flags)
                 /\ p >= PageOf(PageUp(lo)) => IsAnon(mem, p)

\* a read-only segment whose bss ends inside its last file page and a
\* segment whose bss overflows into whole pages have both been loaded
C11_Witness ==
    /\ pc = "handoff"
    /\ \E o \in LoadedObjects : \E k \in BssHeaders(o.f) :
         /\ "w" \notin o.f.ph[k].p_flags
         /\ o.f.ph[k].p_filesz > 0
         /\ PageUp(o.f.ph[k].p_vaddr + o.f.ph[k].p_filesz)
              >= o.f.ph[k].p_vaddr + o.f.ph[k].p_memsz
    /\ \E o \in LoadedObjects : \E k \in BssHeaders(o.f) :
         PageUp(o.f.ph[k].p_vaddr + o.f.ph[k].p_filesz)
           < o.f.ph[k].p_vaddr + o.f.ph[k].p_memsz


-----------------------------------------------------------------------------
(* map_so_lib: the image against the loader *)

\* the main binary is a fixed-address image that passes the header checks
\* and whose pages, from its first map start over its whole extent, share a
\* byte with the loader's pages
ImageMeetsLoader ==
    LET cmds == LoadCmdsOf(files.main.ph, 1)
    IN  /\ files.main.exists /\ files.main.e_type = "ET_EXEC"
        /\ HeaderResult(files.main).fatal = "" /\ cmds # << >>
        /\ cmds[1].mapstart < preloader_end * PageBytes
        /\ cmds[1].mapstart + MapLength(files.main) > preloader_start * PageBytes

\* the address space holds a mapping made by map_so_lib
HasImageMapping == \E r \in mem : r.kind \in {"image", "anon"}

\* C12: once map_so_lib has been called on a fixed-address image that
\* intersects the loader, the process has exited with status 1, the only
\* calls made are the open and the read of the header, and no mapping of
\* the image exists
C12_OverlapIsFatal ==
    ImageMeetsLoader /\ syscalls # << >> =>
        /\ pc = "exited" /\ exit_status = 1
        /\ \A k \in 1 .. Len(syscalls) : syscalls[k].op \in {"open", "read"}
        /\ ~HasImageMapping

\* map_so_lib has been called on an image that starts inside the loader
C12_Witness ==
    /\ ImageMeetsLoader /\ syscalls # << >>
    /\ LoadCmdsOf(files.main.ph, 1)[1].mapstart > preloader_start * PageBytes


-----------------------------------------------------------------------------
(* map_so_lib: the header checks *)

\* the program header table of f lies inside the first 2 KiB of the file
TableInBuffer(f) == f.e_phoff >= 0 /\ f.e_phoff + f.e_phnum * PhdrSize <= HeaderBufSize

\* file f is one of those the header checks are meant to refuse
FailsValidation(f) ==
    \/ f.length < HeaderBufSize
    \/ ~f.magic
    \/ ~f.machine
    \/ f.e_phnum > MaxLoadCmds
    \/ ~TableInBuffer(f)
    \/ \E k \in 1 .. f.e_phnum :
         /\ f.ph[k].p_type = "PT_LOAD"
         /\ \/ f.ph[k].p_align % PageBytes # 0
            \/ (f.ph[k].p_vaddr - f.ph[k].p_offset) % f.ph[k].p_align # 0
    \/ \A k \in 1 .. f.e_phnum : f.ph[k].p_type # "PT_LOAD"

\* map_so_lib has been called on the file named name
Opened(name) == \E k \in 1 .. Len(syscalls) : syscalls[k].file = name

\* map_so_lib has mapped a segment of the file named name
Mapped(name) ==
    \E k \in 1 .. Len(syscalls) : syscalls[k].file = name /\ syscalls[k].op = "mmap"

\* the file map_so_lib was given under the name name
FileOf(name) == IF name = "main" THEN files.main ELSE InterpFile(main_binary_map, files)

\* C13: once map_so_lib has been called on a file that fails validation,
\* the process has exited with status 1, no segment of that file has been
\* mapped, and the hand-off is not reached
C13_InvalidNeverMapped ==
    \A name \in {"main", "interp"} :
        Opened(name) /\ FileOf(name).exists /\ FailsValidation(FileOf(name)) =>
            /\ pc = "exited" /\ exit_status = 1
            /\ ~Mapped(name)


-----------------------------------------------------------------------------
(* map_so_lib: the mappings of a position-independent object *)

\* the link map map_so_lib filled in for the file named name
LinkMapOf(name) == IF name = "main" THEN main_binary_map ELSE ld_so_map

\* the position-independent objects map_so_lib has loaded
LoadedDyn ==
    { name \in {"main", "interp"} :
        LinkMapOf(name) # NoLinkMap /\ FileOf(name).e_type = "ET_DYN" }

\* the mappings of the file named name, in the order they were made
FileMaps(name) == SelectSeq(syscalls, LAMBDA c : c.file = name /\ Fills(c))

\* the load commands after the first that have file data
LaterCmds(f) ==
    LET cmds == LoadCmdsOf(f.ph, 1)
    IN  SelectSeq(SubSeq(cmds, 2, Len(cmds)), LAMBDA c : c.mapend > c.mapstart)

\* C20 as stated: a loaded ET_DYN object has been mapped from its file
\* exactly once, whatever the number of its PT_LOAD segments
C20_OneFileMapping ==
    \A name \in LoadedDyn :
        /\ Len(FileMaps(name)) = 1
        /\ FileMaps(name)[1].how = "file"

\* C20: a loaded ET_DYN object has first been mapped, without MAP_FIXED and
\* over its whole extent, at an address the kernel chose; after that every
\* later load command with file data has been mapped once more with
\* MAP_FIXED, at its own place inside that extent and with its own
\* protection, in the order of the program headers
C20_OneMappingPerLoadCmd ==
    \A name \in LoadedDyn :
        LET l == LinkMapOf(name)
            maps == FileMaps(name)
            later == LaterCmds(FileOf(name))
        IN  /\ Len(maps) = 1 + Len(later)
            /\ maps[1].how = "file"
            /\ maps[1].addr = l.l_map_start
            /\ maps[1].len = l.l_map_end - l.l_map_start
            /\ \E k \in 1 .. Len(kernel.prefer) : kernel.prefer[k] = maps[1].addr
            /\ \A j \in 1 .. Len(later) :
                 /\ maps[j + 1].how = "file_fixed"
                 /\ maps[j + 1].addr = l.l_addr + later[j].mapstart
                 /\ maps[j + 1].len = later[j].mapend - later[j].mapstart
                 /\ maps[j + 1].prot = later[j].prot
                 /\ maps[j + 1].addr >= l.l_map_start
                 /\ maps[j + 1].addr + maps[j + 1].len <= PageUp(l.l_map_end)

\* a position-independent main binary with three load commands and the
\* interpreter with one have been loaded
C20_Witness ==
    /\ pc = "handoff"
    /\ LoadedDyn = {"main", "interp"}
    /\ Len(LaterCmds(files.main)) = 2
    /\ Len(LaterCmds(FileOf("interp"))) = 0


-----------------------------------------------------------------------------
(* wld_start: the vsyscall entries of the auxv *)

SysinfoTags == {AT_SYSINFO, AT_SYSINFO_EHDR}

\* the values the kernel's auxv gives tag t
KernelValues(t) ==
    {kernel.auxv[k].a_val : k \in {j \in 1 .. Len(kernel.auxv) : kernel.auxv[j].a_type = t}}

\* byte address a lies in a range that is still in the list
InListedRange(a) ==
    \E k \in Listed(preload_info) :
        /\ preload_info[k].addr <= a \div PageBytes
        /\ a \div PageBytes < preload_info[k].addr + preload_info[k].size

\* the kernel gave AT_SYSINFO or AT_SYSINFO_EHDR an address inside a listed range
SysinfoConflict == \E t \in SysinfoTags : \E v \in KernelValues(t) : InListedRange(v)

\* the tags a reader of the rewritten auxv meets before the first AT_NULL
TagsRead == {AvType(stack, avx, k) : k \in 0 .. AvCount(stack, avx, 0) - 1}

\* C14: at hand-off, when the kernel's AT_SYSINFO or AT_SYSINFO_EHDR value
\* lies in a range still in the list, neither tag is among the entries of
\* the rewritten auxv and the entry after the last live one has the type
\* AT_NULL; when neither does, each of the two tags the kernel gave is there
\* once with the kernel's value
C14_SysinfoDropped ==
    pc = "handoff" =>
        IF SysinfoConflict
        THEN /\ \A t \in SysinfoTags : Values(t) = {} /\ t \notin TagsRead
             /\ AvType(stack, avx, av_count) = AT_NULL
        ELSE \A t \in SysinfoTags :
                IF KernelValues(t) = {} THEN Values(t) = {}
                ELSE \E v \in KernelValues(t) : Holds(t, v)


-----------------------------------------------------------------------------
(* wld_start: the argument check *)

\* C15: started with argc < 2, the loader has, once it has taken its first
\* step, written the usage message and nothing else to fd 2 and exited with
\* status 1, with the reservation list as it was built, no mapping of its
\* own in the address space and no file opened
C15_UsageExit ==
    argc < 2 /\ pc # "start" =>
        /\ pc = "exited" /\ exit_status = 1
        /\ stderr = << Msg("usage", << >>) >>
        /\ preload_info = InitialInfo
        /\ \A r \in mem : r.kind \in {"loader", "stack", "vdso"}
        /\ syscalls = << >>


-----------------------------------------------------------------------------
(* wld_start: the pointer handed to the main binary *)

NotFound == Msg("wine_main_preload_info not found", << >>)

\* message m has been written to fd 2
Said(m) == \E k \in 1 .. Len(stderr) : stderr[k] = m

-----------------------------------------------------------------------------
(* wld_start: the arguments handed to the interpreter *)

\* C18: at hand-off the word at the stack top is the original argc less
\* one, and the i-th pointer after it leads to a string equal to the
\* original argv[i + 1], for every i from 0 to argc - 2, whether or not
\* prctl( PR_SET_NAME ) succeeded; after a success the first pointer is the
\* place where the original argv[0] began, after a failure the pointers are
\* the original ones; the pointer after the last is still NULL
C18_ArgumentsShifted ==
    pc = "handoff" =>
        /\ stack[top] = argc - 1
        /\ \A k \in 0 .. argc - 2 :
             StrAt(strs, stack[top + 1 + k]) = ArgStrings[k + 2]
        /\ stack[top + 1] = IF kernel.prctl_ok THEN 1 ELSE Len(ArgStrings[1]) + 2
        /\ stack[top + argc] = 0

\* the hand-off with two arguments left, after the strings were moved down
\* and the process was named after the last component of argv[1]
C18_Witness ==
    /\ pc = "handoff"
    /\ argc = 3
    /\ kernel.prctl_ok
    /\ comm = << "w" >>
    /\ StrAt(strs, stack[top + 2]) = << "x" >>


-----------------------------------------------------------------------------
(* wld_start: the reservation pass against the incoming stack *)

\* the pages that hold what the kernel put on the stack, from argc up to
\* the last byte of the AT_NULL entry of the auxv
IncomingPages ==
    pargc.pg .. AddBytes(av, (Len(kernel.auxv) + 1) * 2 * WordBytes(arch) - 1).pg

\* range e holds a page of the incoming stack
OnIncomingStack(e) == \E p \in IncomingPages : e.addr <= p /\ p < e.addr + e.size

\* C19: no reservation is ever mapped over a page of the incoming stack or
\* auxv, and once the pass is over no entry whose range holds such a page is
\* left in the list
C19_StackNeverReserved ==
    /\ \A r \in mem : r.kind = "reserve" => ~OnIncomingStack(Range(r.lo, r.hi - r.lo))
    /\ pc \in AfterPass => \A k \in Listed(preload_info) : ~OnIncomingStack(preload_info[k])


-----------------------------------------------------------------------------
(* C17 *)

\* the image has what find_symbol needs: a dynamic section naming the symbol
\* table, the string table and a hash table of either kind
HasTables(img) ==
    /\ img.dynamic
    /\ HasTag(img, "DT_SYMTAB")
    /\ HasTag(img, "DT_STRTAB")
    /\ HasTag(img, "DT_HASH") \/ HasTag(img, "DT_GNU_HASH")

\* the symbols of img named var that img exports as global objects
ExportedObjects(img, var) ==
    { k \in 1 .. Len(img.symtab) - 1 :
        /\ SymAt(img, k).st_name = var
        /\ SymAt(img, k).st_bind = "STB_GLOBAL"
        /\ SymAt(img, k).st_type = "STT_OBJECT"
        /\ SymAt(img, k).st_shndx # 0 }

\* the names in the symbol table of img
NamesOf(img) == { SymAt(img, k).st_name : k \in 1 .. Len(img.symtab) - 1 }

\* img with only the classical table, and with only the GNU table
ThroughHash(img) == [img EXCEPT !.dyn = << "DT_HASH", "DT_STRTAB", "DT_SYMTAB" >>]
ThroughGnu(img) == [img EXCEPT !.dyn = << "DT_GNU_HASH", "DT_STRTAB", "DT_SYMTAB" >>]

\* C17: once find_symbol has returned on an image with well-formed tables, a
\* name exported as a global object gave st_value + l_addr, a name absent from
\* the symbol table gave NULL, the result is the one the GNU table gives when
\* the image has one, and the classical table and the GNU table over the same
\* symbol table give the same result for the name
C17_SameThroughEitherTable ==
    pc = "sym_done" /\ HasTables(lookup.image) =>
        /\ \A k \in ExportedObjects(lookup.image, lookup.var) :
              symbol = SymAt(lookup.image, k).st_value + lookup.image.l_addr
        /\ lookup.var \notin NamesOf(lookup.image) => symbol = 0
        /\ HasTag(lookup.image, "DT_GNU_HASH") =>
              symbol = FindSymbolIn(ThroughGnu(lookup.image), lookup.var, lookup.type)
        /\ FindSymbolIn(ThroughHash(lookup.image), lookup.var, lookup.type)
             = FindSymbolIn(ThroughGnu(lookup.image), lookup.var, lookup.type)

-----------------------------------------------------------------------------
(* map_so_lib: the mappings of a fixed-address object *)

\* the fixed-address objects map_so_lib has loaded
LoadedExec ==
    { name \in {"main", "interp"} :
        LinkMapOf(name) # NoLinkMap /\ FileOf(name).e_type = "ET_EXEC" }

\* the load commands of f that have file data
FileCmds(f) == SelectSeq(LoadCmdsOf(f.ph, 1), LAMBDA c : c.mapend > c.mapstart)

\* C21: a loaded ET_EXEC object has load bias 0, and every load command of it
\* that has file data, the first included, has been mapped from the file once
\* with MAP_FIXED, at its own address, length and protection, in the order of
\* the program headers; the object has no other mapping of the file
C21_EveryLoadCmdMapped ==
    \A name \in LoadedExec :
        LET maps == FileMaps(name)
            cmds == FileCmds(FileOf(name))
        IN  /\ LinkMapOf(name).l_addr = 0
            /\ Len(maps) = Len(cmds)
            /\ \A j \in 1 .. Len(cmds) :
                 /\ maps[j].how = "file_fixed"
                 /\ maps[j].addr = cmds[j].mapstart
                 /\ maps[j].len = cmds[j].mapend - cmds[j].mapstart
                 /\ maps[j].prot = cmds[j].prot

\* a fixed-address main binary with two load commands that have file data has
\* been loaded below the loader
C21_Witness ==
    /\ pc = "handoff"
    /\ "main" \in LoadedExec
    /\ Len(FileCmds(files.main)) = 2
    /\ Len(FileMaps("main")) = 2
    /\ main_binary_map.l_map_end <= preloader_start * PageBytes

-----------------------------------------------------------------------------
(* preload_reserve: the user range against the low memory areas *)

\* the entries of info from k on that preload_reserve takes for low memory
\* areas: those before the first whose base is above 0x00110000
RECURSIVE LowStatics(_, _)
LowStatics(info, k) ==
    IF info[k].size = 0 \/ info[k].addr > LowMemLimit THEN {}
    ELSE {info[k]} \cup LowStatics(info, k + 1)

\* the range the user gave, in pages
UserRange == ParseRange(reserve.str)

\* the entry preload_reserve wrote
StoredRange == preload_info[ListEnd(InitialInfoOf(arch), 0)]

\* pages from to to - 1 all lie in ranges of rs
InsideRanges(rs, from, to) ==
    \A x \in {from} \cup {r.addr + r.size : r \in {q \in rs : from <= q.addr + q.size
                                                              /\ q.addr + q.size < to}} :
        \E r \in rs : r.addr <= x /\ x < r.addr + r.size

\* ranges r and [from, to) have a page in common
Meets(r, from, to) == r.addr < to /\ from < r.addr + r.size

\* C22: of a user range that passed the sanity checks, preload_reserve stores
\* nothing exactly when the range lies completely inside the low memory
\* areas; otherwise it stores the range with its end kept and its start
\* raised to the end of the last low memory area it overlaps, as given when it
\* overlaps none, and what it stores overlaps no low memory area
C22_CutAgainstLowMemory ==
    LET u == UserRange
        low == LowStatics(InitialInfoOf(arch), 0)
        met == {r \in low : Meets(r, u.start, u.end)}
        s == StoredRange
    IN  pc = "reserve_done" /\ u.start < u.end
        /\ ~OverlapsPreloader(u.start, u.end, preloader_start, preloader_end) =>
            /\ s.size = 0 <=> InsideRanges(low, u.start, u.end)
            /\ s.size # 0 =>
                 /\ s.addr + s.size = u.end
                 /\ met = {} => s.addr = u.start
                 /\ met # {} => \E r \in met : /\ s.addr = r.addr + r.size
                                               /\ \A q \in met : q.addr <= r.addr
                 /\ \A r \in low : ~Meets(r, s.addr, s.addr + s.size)

-----------------------------------------------------------------------------
(* wld_start: a reservation the kernel refuses *)

\* the entries of the list up to its terminator, in order
InfoSeq(info) == [k \in 1 .. ListEnd(info, 0) |-> info[k - 1]]

\* s without its element at position k
Without(s, k) == SubSeq(s, 1, k - 1) \o SubSeq(s, k + 1, Len(s))

\* the pass is at an entry that is clear of the stack and that the kernel
\* refuses to map
AtRefusedEntry ==
    /\ pc = "pass"
    /\ preload_info[i].size # 0
    /\ ~OverlapsStack(preload_info[i], pargc, av)
    /\ Refuses(kernel, preload_info[i])

\* what the turn of the pass at a refused entry does
RefusedStep ==
    AtRefusedEntry =>
        /\ InfoSeq(preload_info') = Without(InfoSeq(preload_info), i + 1)
        /\ pc' = "pass" /\ i' = i
        /\ exit_status' = Running
        /\ mem' = mem
        /\ IF preload_info[i].addr >= \h10
           THEN stderr' = Append(stderr, Msg("failed to reserve range", preload_info[i]))
           ELSE stderr' = stderr

\* C23: when the kernel fails the fixed mapping of an entry, the pass removes
\* that entry from the list, maps nothing, goes on with the entry that
\* followed it and does not end the process; it writes the warning naming the
\* range when the entry's base is at or above 0x10000 and writes nothing when
\* it is below
C23_RefusedEntryDropped == [][RefusedStep]_vars

\* start-up has gone on to the hand-over after the kernel refused the first
\* page, the rest of the low 64k and the range at 0x7f000000: one warning was
\* written, for the last of them, and none of the three is in the list
C23_Witness ==
    /\ pc = "handoff"
    /\ kernel.refused = {0, 1, \h7f800}
    /\ Len(stderr) >= 1
    /\ stderr[1] = Msg("failed to reserve range", Range(\h7f000, \h03000))
    /\ \A k \in 1 .. Len(stderr) : stderr[k].msg = "failed to reserve range" => k = 1
    /\ \A k \in Listed(preload_info) : preload_info[k].addr \notin {0, 1, \h7f000}
    /\ Listed(preload_info) # {}

-----------------------------------------------------------------------------
(* The reservation list under preload_reserve and remove_preload_range *)

\* the entries the pass has not looked at yet
Remaining == SubSeq(InfoSeq(preload_info), i + 1, Len(InfoSeq(preload_info)))

\* the list has a zero-size entry in the array
Terminated == \E k \in 0 .. InfoSlots - 1 : preload_info[k].size = 0

\* what preload_reserve and each turn of the pass do to the list: the call
\* leaves the pass with the whole list to look at; a turn looks at the first
\* entry not yet looked at and leaves the ones after it to the later turns;
\* when it removes the entry, the list is the one before without that entry;
\* when it does not, the list is unchanged; the pass ends when no entry is
\* left
ListStep ==
    /\ pc = "reserve" /\ pc' = "pass" => Remaining' = InfoSeq(preload_info')
    /\ pc = "pass" /\ pc' = "pass" =>
         /\ Remaining # << >>
         /\ Remaining' = Tail(Remaining)
         /\ \/ InfoSeq(preload_info') = InfoSeq(preload_info)
            \/ InfoSeq(preload_info') = Without(InfoSeq(preload_info), i + 1)
         /\ (OverlapsStack(preload_info[i], pargc, av) \/ Refuses(kernel, preload_info[i]))
               => InfoSeq(preload_info') = Without(InfoSeq(preload_info), i + 1)
    /\ pc = "pass" /\ pc' # "pass" => Remaining = << >> /\ preload_info' = preload_info

\* C24: through preload_reserve and every removal of the reservation pass the
\* list keeps a zero-size entry inside the array; a removal takes out exactly
\* the entry at the index and keeps the others in their order; every entry
\* is looked at by exactly one turn of the pass, none being skipped after a
\* removal
C24_ListKept == []Terminated /\ [][ListStep]_vars

\* the pass has ended with a range from WINEPRELOADRESERVE in the last place
\* of the list after the first two entries, refused by the kernel, were
\* removed from under it
C24_Witness ==
    /\ pc = "load_main"
    /\ kernel.refused = {0, 1}
    /\ Len(InfoSeq(preload_info)) = NStatic - 1
    /\ SubSeq(InfoSeq(preload_info), 1, 3) = SubSeq(StaticInfo, 3, 5)
    /\ InfoSeq(preload_info)[4] \notin StaticRanges

-----------------------------------------------------------------------------
(* set_auxiliary_values: what it leaves alone *)

\* the tags of the entries e
TagsOf(e) == { e[k].a_type : k \in 1 .. Len(e) }

\* the places of tag t among the entries a reader of the auxv at word a of
\* st meets before AT_NULL
PlacesOf(st, a, t) == { k \in 0 .. AvCount(st, a, 0) - 1 : AvType(st, a, k) = t }

\* the call leaves the words from the stack top to the auxv as they were,
\* at the same distance from the new top, and the words above the old
\* terminator where they were
FrameKept ==
    /\ avx' - top' = avx - top
    /\ \A k \in 0 .. avx - top - 1 : stack'[top' + k] = stack[top + k]
    /\ \A k \in DOMAIN stack : k > avx + 2 * AvCount(stack, avx, 0) + 1 => stack'[k] = stack[k]

\* every entry of the old auxv that the call was asked neither to set nor to
\* delete is met once in the new auxv, with its value
OthersKept ==
    \A t \in { AvType(stack, avx, k) : k \in 0 .. AvCount(stack, avx, 0) - 1 } :
        t \notin TagsOf(new_av) /\ (\A j \in 1 .. Len(delete_av) : delete_av[j] # t) =>
            /\ Cardinality(PlacesOf(stack', avx', t)) = 1
            /\ \A k \in PlacesOf(stack', avx', t) :
                  \A j \in PlacesOf(stack, avx, t) : AvVal(stack', avx', k) = AvVal(stack, avx, j)

\* C25: the call of set_auxiliary_values keeps argc, the argv and envp
\* pointers and their terminators in order and unchanged from the new stack
\* top on, and every auxv entry whose tag is neither set nor deleted is
\* present exactly once in the auxv it leaves, with its value unchanged
C25_OnlyAuxvRewritten == [][pc = "auxv_call" => FrameKept /\ OthersKept]_vars


-----------------------------------------------------------------------------
(* C26: map_region on Mach-O *)

\* the range the turn of the Mach-O pass at hand gives to map_region: the
\* table entry, or builtin_dlls once the table is through
RegionAtHand == IF preload_info[i].size # 0 THEN preload_info[i] ELSE builtin_dlls

\* the places of the mmap calls in a log
MmapsIn(log) == {k \in 1..Len(log) : log[k].op = "mmap"}

\* map_region returned 1: some mmap returned the address asked for
Reserved(log) == \E k \in MmapsIn(log) : log[k].ret = log[k].addr

\* the probe ran before call k of the log and found no resident page
ProbedBefore(log, k, info) ==
    \E j \in 1..(k - 1) : /\ log[j].op = "mincore"
                          /\ log[j].addr = info.addr
                          /\ log[j].len = info.size
                          /\ log[j].ret = 1

\* one call of map_region by the Mach-O start routine
MapRegionStep ==
    pc = "m_pass" =>
        LET info == RegionAtHand
            log == syscalls'
        IN  /\ Cardinality(MmapsIn(log)) \in {1, 2}
            /\ \A k \in MmapsIn(log) :
                  /\ log[k].addr = info.addr /\ log[k].len = info.size
                  /\ (log[k].how = "anon_fixed" /\ info.addr # 0)
                        => ProbedBefore(log, k, info) /\ IsRegionEmpty(info, mem)
                  /\ log[k].ret \notin {-1, info.addr}
                        => /\ k < Len(log)
                           /\ log[k + 1].op = "munmap"
                           /\ log[k + 1].addr = log[k].ret
                           /\ log[k + 1].len = info.size
            /\ ~Reserved(log) =>
                  /\ mem' = mem
                  /\ Len(stderr') > Len(stderr)
                  /\ stderr'[Len(stderr) + 1] = Msg("failed to reserve range", info)
                  /\ IF preload_info[i].size # 0
                     THEN preload_info' = RemovePreloadRange(preload_info, i) /\ i' = i
                     ELSE builtin_dlls'.size = 0
            /\ Reserved(log) =>
                  /\ \A r \in mem' : r.lo < info.addr + info.size /\ info.addr < r.hi
                                        => r.kind \in {"reserve", "placeholder"}
                  /\ Msg("failed to reserve range", info) \notin
                        {stderr'[k] : k \in (Len(stderr) + 1)..Len(stderr')}

\* C26: map_region maps with MAP_FIXED at a non-zero address only after the
\* mincore probe found the whole range without a resident page, tries mmap at
\* most twice, unmaps whatever the kernel placed at another address, and when
\* it fails leaves the address space as it found it, prints the warning and
\* returns 0, on which the caller drops the range.
C26_MapRegionProbesFirst == [][MapRegionStep]_vars

\* map_region got its range elsewhere, unmapped it, probed, and then either
\* took the range with MAP_FIXED or was refused and gave up
C26_Witness ==
    /\ arch = "macho"
    /\ Len(syscalls) = 4
    /\ syscalls[2].op = "munmap"
    /\ syscalls[3].op = "mincore"
    /\ syscalls[4].how = "anon_fixed"
    /\ syscalls[4].ret = -1
    /\ stderr # << >>


-----------------------------------------------------------------------------
(* C27: the buffer of wld_printf and fatal_error *)

\* the call at hand has been made
MessageDone == message # NoMessage /\ pc # "printf_call"

\* the text of the call at hand and its terminator need more than the buffer
TooLong == Len(WldVsprintf(arch, message.fmt, message.args)) > BufferSize

\* C27: whatever the arguments, a path or a value of WINEPRELOADRESERVE of
\* any length among them, wld_vsprintf stores no byte past the 256 bytes of
\* the buffer of wld_printf and fatal_error, and a call whose text does not
\* fit ends the process with status 1.
C27_MessageFitsBuffer ==
    /\ Len(buffer) <= BufferSize
    /\ MessageDone /\ TooLong => exit_status = 1


-----------------------------------------------------------------------------
(* C28: the room below the incoming stack pointer *)

\* C28: whatever tags the kernel's auxv lacks, all eleven that wld_start sets
\* among them, the stack top set_auxiliary_values leaves, and with it the
\* block it moved, lies within the room the trampoline left below the
\* incoming stack pointer: above the slot of the saved stack pointer and the
\* frame of wld_start.
C28_ShiftWithinScratch == pc # "auxv_call" => top >= 0 - ScratchWords(arch)


-----------------------------------------------------------------------------
(* C29: the entry point of a Mach-O image *)

\* the load commands of the main binary of kind c, in the order of the header
CmdsOf(c) == SelectSeq(files.main.cmds, LAMBDA x : x.cmd = c)

\* C29: on Mach-O the address handed over is that of LC_MAIN, the header plus
\* the command's offset, with the flag saying "not a unix thread", whenever
\* the image has an LC_MAIN, wherever its LC_UNIXTHREAD is; it is the
\* instruction pointer of LC_UNIXTHREAD plus the slide, with the flag set,
\* only when there is no LC_MAIN; with neither command the start routine
\* never hands over and exits with status 1.
C29_MainBeforeUnixThread ==
    arch = "macho" =>
        /\ (pc = "handoff" /\ CmdsOf("LC_MAIN") # << >>) =>
              /\ entry = files.main.at + CmdsOf("LC_MAIN")[1].val
              /\ ~is_unix_thread
        /\ (pc = "handoff" /\ CmdsOf("LC_MAIN") = << >>) =>
              /\ CmdsOf("LC_UNIXTHREAD") # << >>
              /\ entry = CmdsOf("LC_UNIXTHREAD")[1].val + files.main.slide
              /\ is_unix_thread
        /\ (CmdsOf("LC_MAIN") = << >> /\ CmdsOf("LC_UNIXTHREAD") = << >>) =>
              /\ pc # "handoff"
              /\ pc = "exited" => exit_status = 1
              /\ ~is_unix_thread

\* an image whose LC_UNIXTHREAD comes before its LC_MAIN has been handed over
C29_Witness ==
    /\ arch = "macho"
    /\ pc = "handoff"
    /\ Len(files.main.cmds) = 2
    /\ files.main.cmds[1].cmd = "LC_UNIXTHREAD"
    /\ files.main.cmds[2].cmd = "LC_MAIN"
    /\ ~is_unix_thread

=============================================================================
